---- MODULE Spec2Model ----
(***************************************************************************)
(* Wartiles Online: the peer-replicated game-state engine of PeerContext.  *)
(* Every participant (browser tab) holds its own LobbyState and GameState, *)
(* all tabs share one localStorage record per lobby, and every write to    *)
(* localStorage is seen by the other tabs as a storage event.              *)
(*                                                                         *)
(* Resources (gold, units, the costs passed to claimTile and the build     *)
(* costs) are kept in tenths of a unit, so that the ticker's               *)
(* "+= rate / 10" is exact integer arithmetic.                             *)
(***************************************************************************)
EXTENDS Integers, Sequences, FiniteSets, TLC

VARIABLES
    lobbyState,   \* participant -> <<>> or <<LobbyState>>   (useState lobbyState)
    gameState,    \* participant -> <<>> or <<GameState>>    (useState gameState)
    storage,      \* <<>> or <<[lobbyState, gameState]>>: localStorage["lobby-<id>"]
    inbox,        \* participant -> sequence of storage events not yet handled
    created,      \* participants holding a heartbeat interval (lobby creators)
    now,          \* Date.now(), in milliseconds since the model's origin
    ticks,        \* participant -> number of ticker callbacks run so far
    ops,          \* number of operations counted so far against their bound
    lobbyError,   \* participant -> the error joinLobby left ("" for null)
    joined,       \* participants holding a lobby-check interval (joinLobby)
    beats,        \* number of lobby timer callbacks run so far
    call          \* the operation performed by the last step, and what it returned

vars == <<lobbyState, gameState, storage, inbox, created, now, ticks, ops,
          lobbyError, joined, beats, call>>

-----------------------------------------------------------------------------
(* Constants of src/types                                                  *)

NULL == "null"

GRID_SIZE == 24
MAX_PLAYERS == 3
GAME_DURATION_MS == 5 * 60 * 1000

HUMANS == "HUMANS"
ALIENS == "ALIENS"
ROBOTS == "ROBOTS"
Faction == <<HUMANS, ALIENS, ROBOTS>>

GOLD == "GOLD"
UNIT == "UNIT"
DEFENSE == "DEFENSE"
NONE == "NONE"
ConstructType == {GOLD, UNIT, DEFENSE, NONE}

baseColor(f) ==
    CASE f = HUMANS -> "#3498db"
      [] f = ALIENS -> "#2ecc71"
      [] f = ROBOTS -> "#e74c3c"

\* Resources are stored in tenths: one unit of gold is Tenth tenths.
Tenth == 10

\* Period of the resource ticker (setInterval(updateResources, 100)).
TICK_MS == 100

-----------------------------------------------------------------------------
(* Values                                                                  *)

None == <<>>
Some(x) == <<x>>
IsSome(o) == o # <<>>
Get(o) == o[1]

Abs(a) == IF a < 0 THEN 0 - a ELSE a

\* Record<string, Player> is kept as the sequence of its values in key
\* (insertion) order, which is the order of Object.keys / Object.values.
HasPlayer(ps, id) == \E i \in 1..Len(ps) : ps[i].id = id
IndexOf(ps, id) == CHOOSE i \in 1..Len(ps) : ps[i].id = id
PlayerOf(ps, id) == ps[IndexOf(ps, id)]
SetPlayer(ps, id, rec) ==
    IF HasPlayer(ps, id) THEN [ps EXCEPT ![IndexOf(ps, id)] = rec]
    ELSE Append(ps, rec)

\* tiles: Array<{x, y}> as a sequence of <<x, y>>.
TileSet(tiles) == {tiles[i] : i \in 1..Len(tiles)}
RECURSIVE FilterOut(_, _)
FilterOut(tiles, c) ==
    IF tiles = <<>> THEN <<>>
    ELSE IF Head(tiles) = c THEN FilterOut(Tail(tiles), c)
    ELSE <<Head(tiles)>> \o FilterOut(Tail(tiles), c)

\* The grid is stored as the map of the tiles that differ from the tile
\* initializeGameState creates; every other coordinate of the grid reads as
\* that initial tile.
InGrid(x, y) == x \in 0..(GRID_SIZE - 1) /\ y \in 0..(GRID_SIZE - 1)
EmptyTile == [ownerId |-> NULL, color |-> NULL, construct |-> None, defenseBonus |-> 0]
EmptyGrid == [c \in {} |-> EmptyTile]
TileAt(grid, c) == IF c \in DOMAIN grid THEN grid[c] ELSE EmptyTile
SetTile(grid, c, t) ==
    IF t = EmptyTile
    THEN [d \in (DOMAIN grid) \ {c} |-> grid[d]]
    ELSE [d \in (DOMAIN grid) \cup {c} |-> IF d = c THEN t ELSE grid[d]]
OwnedBy(grid, id) == {c \in DOMAIN grid : grid[c].ownerId = id}

-----------------------------------------------------------------------------
(* initializeGameState                                                     *)

\* As startingPositions, with the second and the third corner exchanged.
startingPositionsSwapped ==
    << <<3, 3>>, <<3, GRID_SIZE - 4>>, <<GRID_SIZE - 4, GRID_SIZE - 4>> >>

startingPositions ==
    << <<3, 3>>, <<GRID_SIZE - 4, GRID_SIZE - 4>>, <<3, GRID_SIZE - 4>> >>

RECURSIVE SeedGrid(_, _, _)
SeedGrid(grid, players, i) ==
    IF i > Len(players) \/ i > Len(startingPositions) THEN grid
    ELSE SeedGrid(SetTile(grid, startingPositions[i],
                          [TileAt(grid, startingPositions[i]) EXCEPT
                              !.ownerId = players[i].id,
                              !.color = players[i].color]),
                  players, i + 1)

\* The players the forEach of initializeGameState leaves behind.  The loop
\* writes into the objects it was given, so these are also the records of the
\* caller's lobbyState.players afterwards.
SeedPlayers(players) ==
    [i \in 1..Len(players) |->
        IF i <= Len(startingPositions)
        THEN [players[i] EXCEPT
                 !.tiles = <<startingPositions[i]>>,
                 !.unitRate = IF players[i].faction = ALIENS THEN 1 ELSE @]
        ELSE players[i]]

initializeGameState(players, t) ==
    [gameStarted |-> TRUE,
     currentTurn |-> IF Len(players) > 0 THEN players[1].id ELSE NULL,
     grid        |-> SeedGrid(EmptyGrid, players, 1),
     players     |-> SeedPlayers(players),
     gameEndTime |-> t + GAME_DURATION_MS,
     gameOver    |-> FALSE,
     winner      |-> NULL]

-----------------------------------------------------------------------------
(* updateResources (the body of the ticker callback)                       *)

\* The forEach over Object.entries(scores): maxScore starts at 0, a player
\* replaces the winner only with a strictly larger score.
\* As MostTiles, with "score >= maxScore": the last of the leaders wins.
RECURSIVE MostTilesLastWins(_, _, _, _)
MostTilesLastWins(players, i, maxScore, winner) ==
    IF i > Len(players) THEN winner
    ELSE IF Len(players[i].tiles) >= maxScore
         THEN MostTilesLastWins(players, i + 1, Len(players[i].tiles), players[i].id)
         ELSE MostTilesLastWins(players, i + 1, maxScore, winner)

\* As MostTiles, with no winner when the highest score is shared.
RECURSIVE MostTilesNoTie(_, _, _, _)
MostTilesNoTie(players, i, maxScore, winner) ==
    IF i > Len(players) THEN winner
    ELSE IF Len(players[i].tiles) > maxScore
         THEN MostTilesNoTie(players, i + 1, Len(players[i].tiles), players[i].id)
         ELSE IF Len(players[i].tiles) = maxScore
              THEN MostTilesNoTie(players, i + 1, maxScore, NULL)
              ELSE MostTilesNoTie(players, i + 1, maxScore, winner)

RECURSIVE MostTiles(_, _, _, _)
MostTiles(players, i, maxScore, winner) ==
    IF i > Len(players) THEN winner
    ELSE IF Len(players[i].tiles) > maxScore
         THEN MostTiles(players, i + 1, Len(players[i].tiles), players[i].id)
         ELSE MostTiles(players, i + 1, maxScore, winner)

\* As TimeIsUp, but only once the clock is past gameEndTime.
TimeIsUpLate(gs, t) == gs.gameEndTime # 0 /\ t > gs.gameEndTime

TimeIsUp(gs, t) == gs.gameEndTime # 0 /\ t >= gs.gameEndTime

\* As Accrue, without the division by 10.
AccrueWhole(p) ==
    IF Len(p.tiles) = 0 THEN p
    ELSE [p EXCEPT !.gold = @ + p.goldRate * Tenth,
                   !.units = @ + p.unitRate * Tenth]

\* As Accrue, without skipping the players who hold no tile.
AccrueEliminated(p) ==
    [p EXCEPT !.gold = @ + (p.goldRate * Tenth) \div 10,
              !.units = @ + (p.unitRate * Tenth) \div 10]

Accrue(p) ==
    IF Len(p.tiles) = 0 THEN p
    ELSE [p EXCEPT !.gold = @ + (p.goldRate * Tenth) \div 10,
                   !.units = @ + (p.unitRate * Tenth) \div 10]

updateResources(gs, t) ==
    IF TimeIsUp(gs, t)
    THEN [gs EXCEPT !.gameOver = TRUE,
                    !.winner = MostTiles(gs.players, 1, 0, NULL)]
    ELSE [gs EXCEPT !.players = [i \in 1..Len(gs.players) |-> Accrue(gs.players[i])]]

-----------------------------------------------------------------------------
(* claimTile                                                               *)

isAdjacent(tiles, x, y) ==
    \E i \in 1..Len(tiles) :
        \/ (Abs(tiles[i][1] - x) = 1 /\ tiles[i][2] = y)
        \/ (Abs(tiles[i][2] - y) = 1 /\ tiles[i][1] = x)

Contested(tile, me) == tile.ownerId # NULL /\ tile.ownerId # me

\* As claimTileOutcome, without the adjacency check.
claimTileOutcomeAnywhere(gsOpt, lsOpt, me, x, y, goldCost, unitCost) ==
    IF ~IsSome(gsOpt) \/ ~IsSome(lsOpt) THEN "false"
    ELSE LET gs == Get(gsOpt) IN
      IF y \notin 0..(GRID_SIZE - 1) THEN "throws"
      ELSE IF ~HasPlayer(gs.players, me) THEN "throws"
      ELSE LET player == PlayerOf(gs.players, me)
               tile == TileAt(gs.grid, <<x, y>>) IN
        IF player.gold < goldCost THEN "false"
        ELSE IF x \notin 0..(GRID_SIZE - 1) THEN "throws"
        ELSE IF Contested(tile, me) /\ player.units < unitCost THEN "false"
        ELSE IF Contested(tile, me) /\ ~HasPlayer(gs.players, tile.ownerId) THEN "throws"
        ELSE "true"

\* As claimTileOutcome, without the check of the units.
claimTileOutcomeNoUnits(gsOpt, lsOpt, me, x, y, goldCost, unitCost) ==
    IF ~IsSome(gsOpt) \/ ~IsSome(lsOpt) THEN "false"
    ELSE LET gs == Get(gsOpt) IN
      IF y \notin 0..(GRID_SIZE - 1) THEN "throws"
      ELSE IF ~HasPlayer(gs.players, me) THEN "throws"
      ELSE LET player == PlayerOf(gs.players, me)
               tile == TileAt(gs.grid, <<x, y>>) IN
        IF player.gold < goldCost THEN "false"
        ELSE IF x \notin 0..(GRID_SIZE - 1) THEN "throws"
        ELSE IF ~isAdjacent(player.tiles, x, y) THEN "false"
        ELSE IF Contested(tile, me) /\ ~HasPlayer(gs.players, tile.ownerId) THEN "throws"
        ELSE "true"

\* What a call of claimTile does: "true", "false", or "throws" when it
\* dereferences undefined (a row outside the grid, a missing tile, a missing
\* player record).
claimTileOutcome(gsOpt, lsOpt, me, x, y, goldCost, unitCost) ==
    IF ~IsSome(gsOpt) \/ ~IsSome(lsOpt) THEN "false"
    ELSE LET gs == Get(gsOpt) IN
      IF y \notin 0..(GRID_SIZE - 1) THEN "throws"
      ELSE IF ~HasPlayer(gs.players, me) THEN "throws"
      ELSE LET player == PlayerOf(gs.players, me)
               tile == TileAt(gs.grid, <<x, y>>) IN
        IF player.gold < goldCost THEN "false"
        ELSE IF x \notin 0..(GRID_SIZE - 1) THEN "throws"
        ELSE IF Contested(tile, me) /\ player.units < unitCost THEN "false"
        ELSE IF ~isAdjacent(player.tiles, x, y) THEN "false"
        ELSE IF Contested(tile, me) /\ ~HasPlayer(gs.players, tile.ownerId) THEN "throws"
        ELSE "true"

\* As Eliminate, with the winner read from Object.values(players)[0].
EliminateFirstListed(gs) ==
    LET active == {i \in 1..Len(gs.players) : Len(gs.players[i].tiles) > 0} IN
    IF Cardinality(active) = 1
    THEN [gs EXCEPT !.gameOver = TRUE, !.winner = gs.players[1].id]
    ELSE gs

Eliminate(gs) ==
    LET active == {i \in 1..Len(gs.players) : Len(gs.players[i].tiles) > 0} IN
    IF Cardinality(active) = 1
    THEN [gs EXCEPT !.gameOver = TRUE,
                    !.winner = gs.players[CHOOSE i \in active : TRUE].id]
    ELSE gs

\* As claimTile, without the filter of the previous owner's tiles.
claimTileKeepsOldOwner(gs, me, x, y, goldCost, unitCost) ==
    LET tile == TileAt(gs.grid, <<x, y>>)
        player == PlayerOf(gs.players, me)
        paid == [player EXCEPT
                    !.gold = @ - goldCost,
                    !.units = IF Contested(tile, me) THEN @ - unitCost ELSE @]
        ps1 == SetPlayer(gs.players, me, paid)
        ps3 == SetPlayer(ps1, me,
                   [PlayerOf(ps1, me) EXCEPT !.tiles = Append(@, <<x, y>>)])
    IN Eliminate([gs EXCEPT
                     !.players = ps3,
                     !.grid = SetTile(gs.grid, <<x, y>>,
                                  [tile EXCEPT !.ownerId = me,
                                               !.color = player.color])])

\* As claimTile, with the units spent on every claim.
claimTileAlwaysPaysUnits(gs, me, x, y, goldCost, unitCost) ==
    LET tile == TileAt(gs.grid, <<x, y>>)
        player == PlayerOf(gs.players, me)
        paid == [player EXCEPT !.gold = @ - goldCost, !.units = @ - unitCost]
        ps1 == SetPlayer(gs.players, me, paid)
        ps2 == IF Contested(tile, me)
               THEN SetPlayer(ps1, tile.ownerId,
                        [PlayerOf(ps1, tile.ownerId) EXCEPT
                            !.tiles = FilterOut(@, <<x, y>>)])
               ELSE ps1
        ps3 == SetPlayer(ps2, me,
                   [PlayerOf(ps2, me) EXCEPT !.tiles = Append(@, <<x, y>>)])
    IN Eliminate([gs EXCEPT
                     !.players = ps3,
                     !.grid = SetTile(gs.grid, <<x, y>>,
                                  [tile EXCEPT !.ownerId = me,
                                               !.color = player.color])])

\* As claimTile, with the captured tile's construct and bonus cleared.
claimTileRazes(gs, me, x, y, goldCost, unitCost) ==
    LET tile == TileAt(gs.grid, <<x, y>>)
        player == PlayerOf(gs.players, me)
        paid == [player EXCEPT
                    !.gold = @ - goldCost,
                    !.units = IF Contested(tile, me) THEN @ - unitCost ELSE @]
        ps1 == SetPlayer(gs.players, me, paid)
        ps2 == IF Contested(tile, me)
               THEN SetPlayer(ps1, tile.ownerId,
                        [PlayerOf(ps1, tile.ownerId) EXCEPT
                            !.tiles = FilterOut(@, <<x, y>>)])
               ELSE ps1
        ps3 == SetPlayer(ps2, me,
                   [PlayerOf(ps2, me) EXCEPT !.tiles = Append(@, <<x, y>>)])
    IN Eliminate([gs EXCEPT
                     !.players = ps3,
                     !.grid = SetTile(gs.grid, <<x, y>>,
                                  [tile EXCEPT !.ownerId = me,
                                               !.color = player.color,
                                               !.construct = None,
                                               !.defenseBonus = 0])])

\* The snapshot a successful claimTile publishes.
claimTile(gs, me, x, y, goldCost, unitCost) ==
    LET tile == TileAt(gs.grid, <<x, y>>)
        player == PlayerOf(gs.players, me)
        paid == [player EXCEPT
                    !.gold = @ - goldCost,
                    !.units = IF Contested(tile, me) THEN @ - unitCost ELSE @]
        ps1 == SetPlayer(gs.players, me, paid)
        ps2 == IF Contested(tile, me)
               THEN SetPlayer(ps1, tile.ownerId,
                        [PlayerOf(ps1, tile.ownerId) EXCEPT
                            !.tiles = FilterOut(@, <<x, y>>)])
               ELSE ps1
        ps3 == SetPlayer(ps2, me,
                   [PlayerOf(ps2, me) EXCEPT !.tiles = Append(@, <<x, y>>)])
    IN Eliminate([gs EXCEPT
                     !.players = ps3,
                     !.grid = SetTile(gs.grid, <<x, y>>,
                                  [tile EXCEPT !.ownerId = me,
                                               !.color = player.color])])

-----------------------------------------------------------------------------
(* buildConstruct, demolishConstruct                                       *)

IsBuildable(type) == type \in {GOLD, UNIT, DEFENSE}

buildCost(type) ==
    CASE type = GOLD -> 20 * Tenth
      [] type = UNIT -> 15 * Tenth
      [] type = DEFENSE -> 25 * Tenth
      [] OTHER -> 0

\* As buildConstructOutcome, without the check of the tile's owner.
buildConstructOutcomeAnyTile(gsOpt, lsOpt, me, x, y, type) ==
    IF ~IsSome(gsOpt) \/ ~IsSome(lsOpt) THEN "false"
    ELSE LET gs == Get(gsOpt) IN
      IF ~InGrid(x, y) THEN "throws"
      ELSE LET tile == TileAt(gs.grid, <<x, y>>) IN
        IF tile.construct # None THEN "false"
        ELSE IF ~IsBuildable(type) THEN "false"
        ELSE IF ~HasPlayer(gs.players, me) THEN "throws"
        ELSE IF PlayerOf(gs.players, me).gold < buildCost(type) THEN "false"
        ELSE "true"

\* As buildConstructOutcome, without the check of the gold.
buildConstructOutcomeOnCredit(gsOpt, lsOpt, me, x, y, type) ==
    IF ~IsSome(gsOpt) \/ ~IsSome(lsOpt) THEN "false"
    ELSE LET gs == Get(gsOpt) IN
      IF ~InGrid(x, y) THEN "throws"
      ELSE LET tile == TileAt(gs.grid, <<x, y>>) IN
        IF tile.ownerId # me THEN "false"
        ELSE IF tile.construct # None THEN "false"
        ELSE IF ~IsBuildable(type) THEN "false"
        ELSE IF ~HasPlayer(gs.players, me) THEN "throws"
        ELSE "true"

buildConstructOutcome(gsOpt, lsOpt, me, x, y, type) ==
    IF ~IsSome(gsOpt) \/ ~IsSome(lsOpt) THEN "false"
    ELSE LET gs == Get(gsOpt) IN
      IF ~InGrid(x, y) THEN "throws"
      ELSE LET tile == TileAt(gs.grid, <<x, y>>) IN
        IF tile.ownerId # me THEN "false"
        ELSE IF tile.construct # None THEN "false"
        ELSE IF ~IsBuildable(type) THEN "false"
        ELSE IF ~HasPlayer(gs.players, me) THEN "throws"
        ELSE IF PlayerOf(gs.players, me).gold < buildCost(type) THEN "false"
        ELSE "true"

\* As buildConstruct, with the gold left as it is.
buildConstructForFree(gs, me, x, y, type) ==
    LET tile == TileAt(gs.grid, <<x, y>>)
        player == PlayerOf(gs.players, me)
    IN [gs EXCEPT
           !.players = SetPlayer(gs.players, me,
               [player EXCEPT
                   !.goldRate = IF type = GOLD THEN @ + 1 ELSE @,
                   !.unitRate = IF type = UNIT THEN @ + 1 ELSE @]),
           !.grid = SetTile(gs.grid, <<x, y>>,
               [tile EXCEPT
                   !.construct = Some([type |-> type, ownerId |-> me]),
                   !.defenseBonus = IF type = DEFENSE THEN 10 ELSE @])]

buildConstruct(gs, me, x, y, type) ==
    LET tile == TileAt(gs.grid, <<x, y>>)
        player == PlayerOf(gs.players, me)
    IN [gs EXCEPT
           !.players = SetPlayer(gs.players, me,
               [player EXCEPT
                   !.gold = @ - buildCost(type),
                   !.goldRate = IF type = GOLD THEN @ + 1 ELSE @,
                   !.unitRate = IF type = UNIT THEN @ + 1 ELSE @]),
           !.grid = SetTile(gs.grid, <<x, y>>,
               [tile EXCEPT
                   !.construct = Some([type |-> type, ownerId |-> me]),
                   !.defenseBonus = IF type = DEFENSE THEN 10 ELSE @])]

\* As demolishConstructOutcome, without the check of the tile's owner.
demolishConstructOutcomeAnyOwner(gsOpt, lsOpt, me, x, y) ==
    IF ~IsSome(gsOpt) \/ ~IsSome(lsOpt) THEN "false"
    ELSE LET gs == Get(gsOpt) IN
      IF ~InGrid(x, y) THEN "throws"
      ELSE LET tile == TileAt(gs.grid, <<x, y>>) IN
        IF tile.construct = None THEN "false"
        ELSE IF ~HasPlayer(gs.players, me) /\ Get(tile.construct).type \in {GOLD, UNIT}
             THEN "throws"
        ELSE "true"

demolishConstructOutcome(gsOpt, lsOpt, me, x, y) ==
    IF ~IsSome(gsOpt) \/ ~IsSome(lsOpt) THEN "false"
    ELSE LET gs == Get(gsOpt) IN
      IF ~InGrid(x, y) THEN "throws"
      ELSE LET tile == TileAt(gs.grid, <<x, y>>) IN
        IF tile.ownerId # me THEN "false"
        ELSE IF tile.construct = None THEN "false"
        ELSE IF ~HasPlayer(gs.players, me) /\ Get(tile.construct).type \in {GOLD, UNIT}
             THEN "throws"
        ELSE "true"

\* As demolishConstruct, with the defenseBonus left as it is.
demolishConstructKeepsBonus(gs, me, x, y) ==
    LET tile == TileAt(gs.grid, <<x, y>>)
        type == Get(tile.construct).type
        player == PlayerOf(gs.players, me)
    IN [gs EXCEPT
           !.players = IF type \in {GOLD, UNIT}
                       THEN SetPlayer(gs.players, me,
                                [player EXCEPT
                                    !.goldRate = IF type = GOLD THEN @ - 1 ELSE @,
                                    !.unitRate = IF type = UNIT THEN @ - 1 ELSE @])
                       ELSE gs.players,
           !.grid = SetTile(gs.grid, <<x, y>>, [tile EXCEPT !.construct = None])]

\* As demolishConstruct, with the rates left as they are.
demolishConstructKeepsRate(gs, me, x, y) ==
    LET tile == TileAt(gs.grid, <<x, y>>)
        type == Get(tile.construct).type
    IN [gs EXCEPT
           !.grid = SetTile(gs.grid, <<x, y>>,
               [tile EXCEPT
                   !.construct = None,
                   !.defenseBonus = IF type = DEFENSE THEN 0 ELSE @])]

demolishConstruct(gs, me, x, y) ==
    LET tile == TileAt(gs.grid, <<x, y>>)
        type == Get(tile.construct).type
        player == PlayerOf(gs.players, me)
    IN [gs EXCEPT
           !.players = IF type \in {GOLD, UNIT}
                       THEN SetPlayer(gs.players, me,
                                [player EXCEPT
                                    !.goldRate = IF type = GOLD THEN @ - 1 ELSE @,
                                    !.unitRate = IF type = UNIT THEN @ - 1 ELSE @])
                       ELSE gs.players,
           !.grid = SetTile(gs.grid, <<x, y>>,
               [tile EXCEPT
                   !.construct = None,
                   !.defenseBonus = IF type = DEFENSE THEN 0 ELSE @])]

-----------------------------------------------------------------------------
(* Lobby construction: createLobby, joinLobby, toggleReady                 *)

newPlayer(id, faction, color) ==
    [id |-> id, isReady |-> FALSE, color |-> color, faction |-> faction,
     gold |-> 0, units |-> 0, goldRate |-> 1, unitRate |-> 0, tiles |-> <<>>]

LobbyId == "lobby"

createLobbyState(me) ==
    [lobbyId |-> LobbyId,
     players |-> <<newPlayer(me, HUMANS, baseColor(HUMANS))>>,
     host |-> me,
     gameStarted |-> FALSE]

usedFactions(players) == {players[i].faction : i \in 1..Len(players)}
usedColors(players) == {players[i].color : i \in 1..Len(players)}

\* As selectedFaction, without the search for an unused faction.
selectedFactionAlwaysHumans(players) == HUMANS

selectedFaction(players) ==
    LET free == {i \in 1..Len(Faction) : Faction[i] \notin usedFactions(players)} IN
    IF free # {} THEN Faction[CHOOSE i \in free : \A j \in free : i <= j]
    ELSE HUMANS

selectedColor(players) ==
    LET own == baseColor(selectedFaction(players))
        free == {i \in 1..Len(Faction) : baseColor(Faction[i]) \notin usedColors(players)}
    IN IF own \in usedColors(players) /\ free # {}
       THEN baseColor(Faction[CHOOSE i \in free : \A j \in free : i <= j])
       ELSE own

\* As joinedLobbyState, with the player who joins taking over as host.
joinedLobbyStateAsHost(existing, me) ==
    [existing EXCEPT
        !.host = me,
        !.players = SetPlayer(@, me,
            newPlayer(me, selectedFaction(existing.players),
                      selectedColor(existing.players)))]

joinedLobbyState(existing, me) ==
    [existing EXCEPT
        !.players = SetPlayer(@, me,
            newPlayer(me, selectedFaction(existing.players),
                      selectedColor(existing.players)))]

\* As changedFaction, with the colour left as it is.
changedFactionKeepsColor(ls, me, faction) ==
    IF PlayerOf(ls.players, me).isReady THEN ls
    ELSE [ls EXCEPT !.players = SetPlayer(@, me,
             [PlayerOf(@, me) EXCEPT !.faction = faction])]

changedFaction(ls, me, faction) ==
    IF PlayerOf(ls.players, me).isReady THEN ls
    ELSE [ls EXCEPT !.players = SetPlayer(@, me,
             [PlayerOf(@, me) EXCEPT !.faction = faction,
                                     !.color = baseColor(faction)])]

toggledReady(ls, me) ==
    [ls EXCEPT !.players = SetPlayer(@, me,
        [PlayerOf(@, me) EXCEPT !.isReady = ~@])]

-----------------------------------------------------------------------------
(* The system state as one value, and the storage / message plumbing       *)

\* The tabs that are open.  p1, p2 and p3 enter the lobby, each from its own
\* tab; p2 closes its tab once it has readied up and stays in the roster.
Participants == {"p1", "p3"}

\* `call` records the engine call a step made: its arguments, what it
\* returned, the caller's rates before it, and (follows) the type of the
\* construct that the step before it built for the same caller on the same
\* tile, NONE if that step did no such thing.
Call(op, by, x, y, goldCost, unitCost, type, ret, goldRate0, unitRate0) ==
    [op |-> op, by |-> by, x |-> x, y |-> y, goldCost |-> goldCost,
     unitCost |-> unitCost, type |-> type, ret |-> ret,
     goldRate0 |-> goldRate0, unitRate0 |-> unitRate0, follows |-> NONE]
\* The value of `call` after a step that is not a call of the engine.
Idle == Call("", NULL, 0, 0, 0, 0, NONE, "", 0, 0)

\* A storage event: either a message key written by broadcastToPeers
\* (kind "msg") or the lobby record itself (kind "record").
\* gameState is the snapshot a message carries; payload is what READY_STATE
\* (a boolean, or {faction, color}) and JOIN_LOBBY (a Player) carry.
NoPayload ==
    [bool |-> FALSE, isReady |-> FALSE, faction |-> NULL, color |-> NULL,
     player |-> None]
MsgEvent(type, sender, gsOpt) ==
    [kind |-> "msg", type |-> type, senderId |-> sender,
     gameState |-> gsOpt, lobbyState |-> None, payload |-> NoPayload]
LobbyMsgEvent(type, sender, payload) ==
    [kind |-> "msg", type |-> type, senderId |-> sender,
     gameState |-> None, lobbyState |-> None, payload |-> payload]
RecordEvent(rec) ==
    [kind |-> "record", type |-> "", senderId |-> "",
     gameState |-> rec.gameState, lobbyState |-> Some(rec.lobbyState),
     payload |-> NoPayload]

\* A storage event is dispatched to every other tab.
Post(S, p, ev) ==
    [S EXCEPT !.inbox = [q \in Participants |->
        IF q = p THEN S.inbox[q] ELSE Append(S.inbox[q], ev)]]

\* localStorage.setItem(storageKey, ...): other tabs get a storage event when
\* the stored value changes.
setItem(S, p, rec) ==
    IF S.storage = Some(rec) THEN S
    ELSE Post([S EXCEPT !.storage = Some(rec)], p, RecordEvent(rec))

\* "const existingData = getItem(storageKey); if (existingData) { lobbyData.gameState = gs; setItem }"
putGameState(S, p, gsOpt) ==
    IF IsSome(S.lobbyState[p]) /\ IsSome(S.storage)
    THEN setItem(S, p, [Get(S.storage) EXCEPT !.gameState = gsOpt])
    ELSE S

putLobbyAndGame(S, p, ls, gsOpt) ==
    IF IsSome(S.lobbyState[p]) /\ IsSome(S.storage)
    THEN setItem(S, p, [lobbyState |-> ls, gameState |-> gsOpt])
    ELSE S

\* broadcastToPeers for the messages that carry a snapshot.
broadcastToPeers(S, p, type, gsOpt) ==
    IF ~IsSome(S.lobbyState[p]) THEN S
    ELSE LET S1 == Post(S, p, MsgEvent(type, p, gsOpt)) IN
         IF ~IsSome(S1.storage) THEN S1
         ELSE LET rec == Get(S1.storage) IN
           CASE type = "START_GAME" ->
                  setItem(S1, p, [lobbyState |-> [rec.lobbyState EXCEPT !.gameStarted = TRUE],
                                  gameState |-> gsOpt])
             [] type \in {"CLAIM_TILE", "BUILD_CONSTRUCT", "DEMOLISH_CONSTRUCT"} ->
                  IF IsSome(gsOpt) THEN setItem(S1, p, [rec EXCEPT !.gameState = gsOpt])
                  ELSE setItem(S1, p, rec)
             [] type = "GAME_STATE" ->
                  setItem(S1, p, [rec EXCEPT !.gameState = gsOpt])
             [] OTHER -> setItem(S1, p, rec)

\* localStorage.setItem(storageKey, ...) of a record stamped with Date.now()
\* (lastUpdated, lastHeartbeat): the stored value is new every time.
setItemStamped(S, p, rec) ==
    Post([S EXCEPT !.storage = Some(rec)], p, RecordEvent(rec))

\* "if (existingData) { lobbyData.lobbyState = updatedLobbyState; setItem }"
putLobby(S, p, ls) ==
    IF IsSome(S.lobbyState[p]) /\ IsSome(S.storage)
    THEN setItem(S, p, [Get(S.storage) EXCEPT !.lobbyState = ls])
    ELSE S

ReadyPayload(isReady) == [NoPayload EXCEPT !.bool = TRUE, !.isReady = isReady]
FactionPayload(faction) ==
    [NoPayload EXCEPT !.faction = faction, !.color = baseColor(faction)]
JoinPayload(player) == [NoPayload EXCEPT !.player = Some(player)]

\* What a READY_STATE message does to the roster it is applied to: nothing
\* if the sender is not in it.
applyReadyState(ls, sender, payload) ==
    IF ~HasPlayer(ls.players, sender) THEN ls
    ELSE IF payload.bool
    THEN [ls EXCEPT !.players = SetPlayer(@, sender,
             [PlayerOf(@, sender) EXCEPT !.isReady = payload.isReady])]
    ELSE [ls EXCEPT !.players = SetPlayer(@, sender,
             [PlayerOf(@, sender) EXCEPT !.faction = payload.faction,
                                         !.color = payload.color])]

\* broadcastToPeers for a READY_STATE message.
broadcastReadyState(S, p, payload) ==
    IF ~IsSome(S.lobbyState[p]) THEN S
    ELSE LET S1 == Post(S, p, LobbyMsgEvent("READY_STATE", p, payload)) IN
         IF ~IsSome(S1.storage) THEN S1
         ELSE LET rec == Get(S1.storage) IN
              setItem(S1, p, [rec EXCEPT
                  !.lobbyState = applyReadyState(@, p, payload)])

-----------------------------------------------------------------------------
(* The operations of the context, as functions of the system state S       *)

\* The value of `call` after a call of a lobby operation.
LobbyCall(op, by, faction, ret) == Call(op, by, 0, 0, 0, 0, faction, ret, 0, 0)

\* createLobby: the heartbeat interval it installs is the action Heartbeat.
createLobby(S, p) ==
    LET newLobbyState == createLobbyState(p)
        S1 == [S EXCEPT !.lobbyState[p] = Some(newLobbyState),
                        !.created = @ \cup {p},
                        !.call = LobbyCall("createLobby", p, NONE, "")]
    IN setItemStamped(S1, p, [lobbyState |-> newLobbyState, gameState |-> None])

\* joinLobby by p.  A participant outside Participants is a tab that is
\* closed as soon as joinLobby has returned: it keeps no state, handles no
\* event and runs no interval.
joinLobby(S, p) ==
    LET here == p \in Participants
        c == LobbyCall("joinLobby", p, NONE, "")
        fail(msg) == IF here THEN [S EXCEPT !.lobbyError[p] = msg, !.call = c]
                     ELSE [S EXCEPT !.call = c]
    IN IF ~IsSome(S.storage) THEN fail("Lobby not found")
       ELSE LET lobbyData == Get(S.storage)
                existingLobbyState == lobbyData.lobbyState
            IN IF Len(existingLobbyState.players) >= 3 THEN fail("Lobby is full")
               ELSE LET updatedLobbyState == joinedLobbyState(existingLobbyState, p)
                        player == PlayerOf(updatedLobbyState.players, p)
                        S1 == IF here
                              THEN [S EXCEPT !.lobbyError[p] = "",
                                             !.lobbyState[p] = Some(updatedLobbyState),
                                             !.joined = @ \cup {p},
                                             !.call = c]
                              ELSE [S EXCEPT !.joined = @ \cup {p}, !.call = c]
                        S2 == setItemStamped(S1, p,
                                  [lobbyData EXCEPT !.lobbyState = updatedLobbyState])
                    IN Post(S2, p, LobbyMsgEvent("JOIN_LOBBY", p, JoinPayload(player)))

toggleReady(S, p) ==
    IF ~IsSome(S.lobbyState[p]) THEN [S EXCEPT !.call = LobbyCall("toggleReady", p, NONE, "")]
    ELSE LET ls == Get(S.lobbyState[p]) IN
      IF ~HasPlayer(ls.players, p)
      THEN [S EXCEPT !.call = LobbyCall("toggleReady", p, NONE, "throws")]
      ELSE LET updatedLobbyState == toggledReady(ls, p)
               S1 == [S EXCEPT !.lobbyState[p] = Some(updatedLobbyState),
                               !.call = LobbyCall("toggleReady", p, NONE, "")]
               S2 == broadcastReadyState(S1, p,
                         ReadyPayload(PlayerOf(updatedLobbyState.players, p).isReady))
           IN putLobby(S2, p, updatedLobbyState)

changeFaction(S, p, faction) ==
    IF ~IsSome(S.lobbyState[p]) THEN [S EXCEPT !.call = LobbyCall("changeFaction", p, faction, "")]
    ELSE LET ls == Get(S.lobbyState[p]) IN
      IF ~HasPlayer(ls.players, p)
      THEN [S EXCEPT !.call = LobbyCall("changeFaction", p, faction, "throws")]
      ELSE IF PlayerOf(ls.players, p).isReady
      THEN [S EXCEPT !.call = LobbyCall("changeFaction", p, faction, "")]
      ELSE LET updatedLobbyState == changedFaction(ls, p, faction)
               S1 == [S EXCEPT !.lobbyState[p] = Some(updatedLobbyState),
                               !.call = LobbyCall("changeFaction", p, faction, "")]
               S2 == broadcastReadyState(S1, p, FactionPayload(faction))
           IN putLobby(S2, p, updatedLobbyState)

\* startGame: initializeGameState seeds the records of lobbyState.players in
\* place, so the lobby state written back carries the seeded records.
startGame(S, p) ==
    IF ~IsSome(S.lobbyState[p])
    THEN [S EXCEPT !.call = LobbyCall("startGame", p, NONE, "")]
    ELSE
      LET ls == Get(S.lobbyState[p])
          newGameState == initializeGameState(ls.players, S.now)
          updatedLobbyState == [ls EXCEPT !.gameStarted = TRUE,
                                          !.players = SeedPlayers(ls.players)]
          S1 == [S EXCEPT !.gameState[p] = Some(newGameState),
                          !.lobbyState[p] = Some(updatedLobbyState),
                          !.call = LobbyCall("startGame", p, NONE, "")]
          S2 == broadcastToPeers(S1, p, "START_GAME", Some(newGameState))
      IN putLobbyAndGame(S2, p, updatedLobbyState, Some(newGameState))

\* As resetPlayers, with unitRate 1 for every player of the Aliens.
resetPlayersAliensAll(players, me) ==
    [i \in 1..Len(players) |->
        [players[i] EXCEPT
            !.isReady = FALSE,
            !.tiles = <<>>,
            !.gold = 0,
            !.units = 0,
            !.goldRate = 1,
            !.unitRate = IF players[i].faction = ALIENS THEN 1 ELSE 0]]

\* resetGame: the records of every player as it leaves them.
resetPlayers(players, me) ==
    [i \in 1..Len(players) |->
        [players[i] EXCEPT
            !.isReady = FALSE,
            !.tiles = <<>>,
            !.gold = 0,
            !.units = 0,
            !.goldRate = 1,
            !.unitRate = IF players[i].id = me /\ players[i].faction = ALIENS
                         THEN 1 ELSE 0]]

resetGame(S, p) ==
    LET c == LobbyCall("resetGame", p, NONE, "")
        S0 == [S EXCEPT !.gameState[p] = None, !.call = c]
    IN IF ~IsSome(S.lobbyState[p]) THEN S0
       ELSE LET updatedLobbyState ==
                    [Get(S.lobbyState[p]) EXCEPT
                        !.gameStarted = FALSE,
                        !.players = resetPlayers(@, p)]
                S1 == [S0 EXCEPT !.lobbyState[p] = Some(updatedLobbyState)]
                S2 == putLobbyAndGame(S1, p, updatedLobbyState, None)
            IN broadcastToPeers(S2, p, "GAME_STATE", None)

\* The heartbeat interval of createLobby.  Its callback reads the lobbyState
\* of the render in which createLobby was called, which is null: createLobby
\* is called from the Home screen, shown only to a tab without lobby.
heartbeat(S, p) ==
    LET S0 == [S EXCEPT !.beats = @ + 1, !.call = Idle] IN
    IF ~IsSome(S.storage) THEN S0
    ELSE LET data == Get(S.storage)
             updatedLobbyState == [data.lobbyState EXCEPT !.host = p]
             S1 == setItemStamped(S0, p, [data EXCEPT !.lobbyState = updatedLobbyState])
         IN [S1 EXCEPT !.lobbyState[p] = Some(updatedLobbyState)]

\* The lobby-check interval of joinLobby.  Its callback, too, reads the
\* lobbyState of the render in which joinLobby was called, which is null.
lobbyCheck(S, p) ==
    LET S0 == [S EXCEPT !.beats = @ + 1, !.call = Idle] IN
    IF ~IsSome(S.storage) THEN S0
    ELSE [S0 EXCEPT !.lobbyState[p] = Some(Get(S.storage).lobbyState)]

\* The three engine calls share their tail: setGameState, broadcast, and the
\* direct write of the snapshot into the lobby record.
publish(S, p, type, updatedGameState) ==
    LET S1 == [S EXCEPT !.gameState[p] = Some(updatedGameState)]
        S2 == broadcastToPeers(S1, p, type, Some(updatedGameState))
    IN putGameState(S2, p, Some(updatedGameState))

ratesOf(S, p) ==
    IF IsSome(S.gameState[p]) /\ HasPlayer(Get(S.gameState[p]).players, p)
    THEN PlayerOf(Get(S.gameState[p]).players, p)
    ELSE newPlayer(p, HUMANS, NULL)

claimTileCall(S, p, x, y, goldCost, unitCost) ==
    LET ret == claimTileOutcome(S.gameState[p], S.lobbyState[p], p, x, y, goldCost, unitCost)
        c == Call("claimTile", p, x, y, goldCost, unitCost, NONE, ret,
                  ratesOf(S, p).goldRate, ratesOf(S, p).unitRate)
    IN IF ret = "true"
       THEN publish([S EXCEPT !.call = c], p, "CLAIM_TILE",
                    claimTile(Get(S.gameState[p]), p, x, y, goldCost, unitCost))
       ELSE [S EXCEPT !.call = c]

buildConstructCall(S, p, x, y, type) ==
    LET ret == buildConstructOutcome(S.gameState[p], S.lobbyState[p], p, x, y, type)
        c == Call("buildConstruct", p, x, y, 0, 0, type, ret,
                  ratesOf(S, p).goldRate, ratesOf(S, p).unitRate)
    IN IF ret = "true"
       THEN publish([S EXCEPT !.call = c], p, "BUILD_CONSTRUCT",
                    buildConstruct(Get(S.gameState[p]), p, x, y, type))
       ELSE [S EXCEPT !.call = c]

demolishConstructCall(S, p, x, y) ==
    LET ret == demolishConstructOutcome(S.gameState[p], S.lobbyState[p], p, x, y)
        built == S.call.op = "buildConstruct" /\ S.call.ret = "true"
                   /\ S.call.by = p /\ S.call.x = x /\ S.call.y = y
        c == [Call("demolishConstruct", p, x, y, 0, 0, NONE, ret,
                   ratesOf(S, p).goldRate, ratesOf(S, p).unitRate)
                 EXCEPT !.follows = IF built THEN S.call.type ELSE NONE]
    IN IF ret = "true"
       THEN publish([S EXCEPT !.call = c], p, "DEMOLISH_CONSTRUCT",
                    demolishConstruct(Get(S.gameState[p]), p, x, y))
       ELSE [S EXCEPT !.call = c]

\* As tickerRuns, without the check of gameOver.
tickerRunsAfterEnd(S, p) == IsSome(S.gameState[p])

\* The resource loop's effect installs the interval only while a game state
\* is present and not over.
tickerRuns(S, p) == IsSome(S.gameState[p]) /\ ~Get(S.gameState[p]).gameOver

\* One run of the interval callback at p.  Only the end-of-time branch
\* writes the lobby record; an accrual tick only calls setGameState.
tick(S, p) ==
    LET gs == Get(S.gameState[p])
        updatedGameState == updateResources(gs, S.now)
        S1 == [S EXCEPT !.gameState[p] = Some(updatedGameState),
                        !.ticks[p] = @ + 1,
                        !.call = Idle]
    IN IF TimeIsUp(gs, S.now) THEN putGameState(S1, p, Some(updatedGameState))
       ELSE S1

\* As startedLobby, with gameStarted flipped instead of set.
startedLobbyFlipped(ls) == [ls EXCEPT !.gameStarted = ~@]

\* "{ ...lobbyState, gameStarted: true }" of the START_GAME handler.
startedLobby(ls) == [ls EXCEPT !.gameStarted = TRUE]

\* handlePeerMessage, for every message type the tabs send.
handlePeerMessage(S, q, ev) ==
    CASE ev.type = "JOIN_LOBBY" ->
           IF IsSome(S.lobbyState[q])
           THEN LET updatedLobbyState ==
                        [Get(S.lobbyState[q]) EXCEPT
                            !.players = SetPlayer(@, ev.senderId, Get(ev.payload.player))]
                IN putLobby([S EXCEPT !.lobbyState[q] = Some(updatedLobbyState)],
                            q, updatedLobbyState)
           ELSE S
      [] ev.type = "READY_STATE" ->
           IF IsSome(S.lobbyState[q]) /\ HasPlayer(Get(S.lobbyState[q]).players, ev.senderId)
           THEN LET updatedLobbyState ==
                        applyReadyState(Get(S.lobbyState[q]), ev.senderId, ev.payload)
                IN putLobby([S EXCEPT !.lobbyState[q] = Some(updatedLobbyState)],
                            q, updatedLobbyState)
           ELSE S
      [] ev.type = "START_GAME" ->
           LET S1 == [S EXCEPT !.gameState[q] = ev.gameState] IN
           IF IsSome(S.lobbyState[q])
           THEN LET updatedLobbyState == startedLobby(Get(S.lobbyState[q])) IN
                putLobbyAndGame([S1 EXCEPT !.lobbyState[q] = Some(updatedLobbyState)],
                                q, updatedLobbyState, ev.gameState)
           ELSE S1
      [] ev.type \in {"CLAIM_TILE", "BUILD_CONSTRUCT", "DEMOLISH_CONSTRUCT"} ->
           IF IsSome(ev.gameState)
           THEN putGameState([S EXCEPT !.gameState[q] = ev.gameState], q, ev.gameState)
           ELSE S
      [] ev.type = "GAME_STATE" ->
           putGameState([S EXCEPT !.gameState[q] = ev.gameState], q, ev.gameState)
      [] OTHER -> S

\* handleStorageChange for a change of the lobby record itself.
mergedLobbyState(S, q, dataLobbyState) ==
    LET ls == Get(S.lobbyState[q])
        keepReady ==
            IF HasPlayer(ls.players, q) /\ HasPlayer(dataLobbyState.players, q)
            THEN [dataLobbyState EXCEPT !.players = SetPlayer(@, q,
                     [PlayerOf(@, q) EXCEPT !.isReady = PlayerOf(ls.players, q).isReady])]
            ELSE dataLobbyState
    IN IF q \in S.created THEN [keepReady EXCEPT !.host = q] ELSE keepReady

handleRecordChange(S, q, ev) ==
    LET S1 == IF IsSome(ev.lobbyState) /\ ev.lobbyState # S.lobbyState[q]
              THEN [S EXCEPT !.lobbyState[q] = Some(mergedLobbyState(S, q, Get(ev.lobbyState)))]
              ELSE S
    IN IF IsSome(ev.gameState) /\ ev.gameState # S.gameState[q]
       THEN [S1 EXCEPT !.gameState[q] = ev.gameState]
       ELSE S1

\* handleStorageChange: the head of q's queue of storage events.
handleStorageChange(S, q) ==
    LET ev == Head(S.inbox[q])
        S0 == [S EXCEPT !.inbox[q] = Tail(@), !.call = Idle]
    IN IF ~IsSome(S.lobbyState[q]) THEN S0
       ELSE IF ev.kind = "msg"
            THEN IF ev.senderId # q THEN handlePeerMessage(S0, q, ev) ELSE S0
            ELSE handleRecordChange(S0, q, ev)

\* As hasImportantChanges, without the comparison of the grids.
hasImportantChangesGameOverOnly(stored, gs) == stored.gameOver # gs.gameOver

\* checkForUpdates: the poll of the lobby record.
hasImportantChanges(stored, gs) ==
    stored.grid # gs.grid \/ stored.gameOver # gs.gameOver

checkForUpdates(S, q) ==
    LET S0 == S IN
    IF ~IsSome(S.storage) THEN S0
    ELSE
      LET data == Get(S.storage)
          ls == Get(S.lobbyState[q])
          stored == data.lobbyState
          S1 == IF /\ Some(stored) # S.lobbyState[q]
                   /\ \/ ~HasPlayer(stored.players, q)
                      \/ /\ HasPlayer(ls.players, q)
                         /\ PlayerOf(stored.players, q).isReady = PlayerOf(ls.players, q).isReady
                THEN [S0 EXCEPT !.lobbyState[q] = Some(
                        IF HasPlayer(ls.players, q)
                        THEN [stored EXCEPT !.players = SetPlayer(@, q, PlayerOf(ls.players, q))]
                        ELSE stored)]
                ELSE S0
      IN IF IsSome(data.gameState) /\ data.gameState # S.gameState[q]
         THEN IF IsSome(S.gameState[q])
              THEN IF hasImportantChanges(Get(data.gameState), Get(S.gameState[q]))
                   THEN [S1 EXCEPT !.gameState[q] = data.gameState]
                   ELSE S1
              ELSE [S1 EXCEPT !.gameState[q] = data.gameState]
         ELSE S1

-----------------------------------------------------------------------------
(* Bounds and the inputs the model draws                                   *)

\* Longest queue of unhandled storage events a tab may hold.
MaxInbox == 4
\* Ticker callbacks run over all tabs within one exploration.
MaxTicks == 1
\* Successful claimTile / buildConstruct / demolishConstruct calls within
\* one exploration.
MaxOps == 1
\* Successful buildConstruct / demolishConstruct calls when construction is
\* explored on its own.
MaxBuilds == 2
\* Ticker callbacks one tab runs when the ticker is explored on its own.
MaxRun == 10

\* Calls of lobby operations (createLobby, joinLobby, toggleReady,
\* changeFaction, startGame, resetGame) within one exploration of the lobby.
MaxLobbyOps == 3
\* Callbacks of the lobby timers (heartbeat, lobby check, poll) within one
\* exploration of the lobby.
MaxBeats == 1

\* Tabs that join a lobby and are closed at once, in the order they arrive.
Guests == <<"p2", "p4">>

\* Coordinates offered to claimTile: starting tiles, their neighbours, one
\* tile in the middle of the board and one coordinate below the board.
ClaimCoords ==
    {<<3, 3>>, <<3, 4>>, <<4, 3>>, <<20, 20>>, <<10, 10>>, <<3, GRID_SIZE>>}

\* <<goldCost, unitCost>> offered to claimTile, in tenths.
ClaimCosts == {<<0, 0>>, <<25 * Tenth, 5 * Tenth>>}

\* <<<<x, y>>, type>> offered to buildConstruct, <<x, y>> to demolishConstruct.
BuildInputs ==
    ({<<3, 3>>, <<3, 4>>} \X {GOLD, UNIT, DEFENSE})
        \cup {<<<<3, 3>>, NONE>>, <<<<4, 3>>, GOLD>>, <<<<3, GRID_SIZE>>, GOLD>>}
DemolishCoords == {<<3, 3>>, <<3, 4>>, <<4, 3>>, <<3, GRID_SIZE>>}

-----------------------------------------------------------------------------
(* Initial states                                                          *)

RECURSIVE SumOver(_, _)
SumOver(f, set) ==
    IF set = {} THEN 0
    ELSE LET q == CHOOSE q \in set : TRUE IN f[q] + SumOver(f, set \ {q})

\* The lobby after p1 created it, p2 and p3 joined, p3 switched to the Aliens
\* and everybody readied up.
ReadyLobby ==
    LET l1 == createLobbyState("p1")
        l2 == joinedLobbyState(l1, "p2")
        l3 == changedFaction(joinedLobbyState(l2, "p3"), "p3", ALIENS)
    IN toggledReady(toggledReady(toggledReady(l3, "p1"), "p2"), "p3")

Pregame ==
    [lobbyState |-> [q \in Participants |-> Some(ReadyLobby)],
     gameState  |-> [q \in Participants |-> None],
     storage    |-> Some([lobbyState |-> ReadyLobby, gameState |-> None]),
     inbox      |-> [q \in Participants |-> <<>>],
     created    |-> {"p1"},
     now        |-> 0,
     ticks      |-> [q \in Participants |-> 0],
     ops        |-> 0,
     lobbyError |-> [q \in Participants |-> ""],
     joined     |-> {"p3"},
     beats      |-> 0,
     call       |-> Idle]

\* Every tab handles every storage event it has been sent.  (In the replays
\* below, S1 = S1 makes each intermediate state a computed value before the
\* recursion continues from it.)
RECURSIVE Drain(_)
Drain(S) ==
    IF \A q \in Participants : S.inbox[q] = <<>> THEN S
    ELSE LET S1 == handleStorageChange(S, CHOOSE q \in Participants : S.inbox[q] # <<>>)
         IN IF S1 = S1 THEN Drain(S1) ELSE S1

RECURSIVE TicksAt(_, _, _)
TicksAt(S, p, n) ==
    IF n = 0 THEN S
    ELSE IF n = 1 THEN tick(S, p)
    ELSE LET S1 == TicksAt(S, p, n \div 2)
         IN IF S1 = S1 THEN TicksAt(S1, p, n - (n \div 2)) ELSE S1

RECURSIVE ClaimPath(_, _, _)
ClaimPath(S, p, path) ==
    IF path = <<>> THEN S
    ELSE LET S1 == Drain(claimTileCall(S, p, Head(path)[1], Head(path)[2], 0, 0))
         IN IF S1 = S1 THEN ClaimPath(S1, p, Tail(path)) ELSE S1

\* p3 walks from its start (3, 20) up column 3 to the tile below p1's start
\* and along row 20 to the tile left of p2's start.
SiegePath ==
    [i \in 1..16 |-> <<3, 20 - i>>] \o [i \in 1..16 |-> <<3 + i, 20>>]

\* Ticks p3's ticker has run before p3 sets out: none, or one short of those
\* that earn the 25 gold of ClaimCosts and of a DEFENSE construct.
LongWait == 25 * Tenth - 1

Fresh(S) ==
    [S EXCEPT !.ticks = [q \in Participants |-> 0], !.ops = 0, !.beats = 0,
              !.call = Idle]

\* The match right after the host started it, every tab having handled
\* every event.
Started == Fresh(Drain(startGame(Pregame, "p1")))

\* A match in which k ticks ran at p3 and p3 then claimed SiegePath for
\* free: p3 stands next to the only tile of p1 and next to the only tile of
\* p2.
Siege(k) ==
    LET waited == TicksAt([Started EXCEPT !.now = k * TICK_MS], "p3", k)
    IN Fresh(ClaimPath(waited, "p3", SiegePath))

\* The siege after p3 also took p2's tile, built a UNIT construct below p1's
\* start and let its ticker earn the price back: p2 is eliminated, p1 holds
\* one tile.
LastStand(k) ==
    LET taken == ClaimPath(Siege(k), "p3", <<startingPositions[2]>>)
        built == Drain(buildConstructCall(taken, "p3", 3, 4, UNIT))
        later == [built EXCEPT !.now = @ + buildCost(UNIT) * TICK_MS]
    IN Fresh(TicksAt(later, "p3", buildCost(UNIT)))

Cur ==
    [lobbyState |-> lobbyState, gameState |-> gameState, storage |-> storage,
     inbox |-> inbox, created |-> created, now |-> now, ticks |-> ticks,
     ops |-> ops, lobbyError |-> lobbyError, joined |-> joined, beats |-> beats,
     call |-> call]

Becomes(S) ==
    /\ lobbyState' = S.lobbyState
    /\ gameState' = S.gameState
    /\ storage' = S.storage
    /\ inbox' = S.inbox
    /\ created' = S.created
    /\ now' = S.now
    /\ ticks' = S.ticks
    /\ ops' = S.ops
    /\ lobbyError' = S.lobbyError
    /\ joined' = S.joined
    /\ beats' = S.beats
    /\ call' = S.call

Fits(S) == \A q \in Participants : Len(S.inbox[q]) <= MaxInbox

\* A successful engine call counts against the bound on them.
Counted(S) == IF S.call.ret = "true" THEN [S EXCEPT !.ops = @ + 1] ELSE S

Starts(S) ==
    /\ lobbyState = S.lobbyState
    /\ gameState = S.gameState
    /\ storage = S.storage
    /\ inbox = S.inbox
    /\ created = S.created
    /\ now = S.now
    /\ ticks = S.ticks
    /\ ops = S.ops
    /\ lobbyError = S.lobbyError
    /\ joined = S.joined
    /\ beats = S.beats
    /\ call = S.call

Init == \E S \in {Pregame, Siege(LongWait), LastStand(LongWait)} : Starts(S)

-----------------------------------------------------------------------------
(* Actions                                                                 *)

\* A call that returned false or threw has left every variable of the program
\* as it was, so every step that can follow it can also follow the state it
\* was made in.  The model records such a call in `call` and does not extend
\* the behaviour beyond it.
Live == call.ret \in {"", "true"}

\* As canStartGame, without the check that everybody is ready.
canStartGameUnready(ls) == Len(ls.players) >= 2

\* The Start Game button: shown by Lobby to the host while the lobby has not
\* started, every player is ready and at least two players are present.
canStartGame(ls) ==
    /\ \A i \in 1..Len(ls.players) : ls.players[i].isReady
    /\ Len(ls.players) >= 2

StartGame(p) ==
    /\ Live
    /\ IsSome(lobbyState[p])
    /\ ~Get(lobbyState[p]).gameStarted
    /\ p = Get(lobbyState[p]).host
    /\ canStartGame(Get(lobbyState[p]))
    /\ LET S == startGame(Cur, p) IN Fits(S) /\ Becomes(S)

ClaimTile(p) ==
    /\ Live
    /\ ops < MaxOps
    /\ \E c \in ClaimCoords, k \in ClaimCosts :
         LET S == claimTileCall(Cur, p, c[1], c[2], k[1], k[2])
         IN Fits(S) /\ Becomes(Counted(S))

BuildConstruct(p) ==
    /\ Live
    /\ ops < MaxOps
    /\ \E b \in BuildInputs :
         LET S == buildConstructCall(Cur, p, b[1][1], b[1][2], b[2])
         IN Fits(S) /\ Becomes(Counted(S))

DemolishConstruct(p) ==
    /\ Live
    /\ ops < MaxOps
    /\ \E c \in DemolishCoords :
         LET S == demolishConstructCall(Cur, p, c[1], c[2])
         IN Fits(S) /\ Becomes(Counted(S))

Tick(p) ==
    /\ Live
    /\ tickerRuns(Cur, p)
    /\ SumOver(ticks, Participants) < MaxTicks
    /\ LET S == tick(Cur, p) IN Fits(S) /\ Becomes(S)

HandleStorageChange(q) ==
    /\ Live
    /\ inbox[q] # <<>>
    /\ LET S == handleStorageChange(Cur, q) IN Fits(S) /\ Becomes(S)

\* A poll that finds nothing new changes nothing and is not a step.
CheckForUpdates(q) ==
    /\ Live
    /\ IsSome(lobbyState[q])
    /\ LET S == checkForUpdates(Cur, q)
       IN S # Cur /\ Becomes([S EXCEPT !.call = Idle])

\* The clock moves on; the model follows it to the instant a running match
\* ends.
ClockPoints ==
    {Get(gameState[q]).gameEndTime : q \in {r \in Participants : IsSome(gameState[r])}}

PassTime ==
    /\ Live
    /\ \E t \in ClockPoints :
        /\ t > now
        /\ Becomes([Cur EXCEPT !.now = t, !.call = Idle])

Next ==
    \/ \E p \in Participants : StartGame(p)
    \/ \E p \in Participants : ClaimTile(p)
    \/ \E p \in Participants : BuildConstruct(p)
    \/ \E p \in Participants : DemolishConstruct(p)
    \/ \E p \in Participants : Tick(p)
    \/ \E p \in Participants : HandleStorageChange(p)
    \/ PassTime

\* The engine with the storage events as the only way a snapshot travels.
Spec == Init /\ [][Next]_vars

\* The engine with the poll of the lobby record as a second way.
NextSync ==
    \/ Next
    \/ \E p \in Participants : CheckForUpdates(p)

SpecSync == Init /\ [][NextSync]_vars

-----------------------------------------------------------------------------
(* The resource ticker on its own: nobody acts, the intervals run          *)

\* Nobody has any gold yet in either of these.
Fallen == Fresh(ClaimPath(Siege(0), "p3", <<startingPositions[2]>>))

InitTicker == \E S \in {Started, Fallen} : Starts(S)

Interval(p) ==
    /\ tickerRuns(Cur, p)
    /\ ticks[p] < MaxRun
    /\ LET S == tick(Cur, p) IN Fits(S) /\ Becomes(S)

NextTicker ==
    \/ \E p \in Participants : Interval(p)
    \/ \E p \in Participants : HandleStorageChange(p)
    \/ PassTime

SpecTicker == InitTicker /\ [][NextTicker]_vars

\* setInterval keeps calling the callback every 100 ms for as long as the
\* effect has it installed, and the browser dispatches every storage event.
TickerFairness ==
    \A p \in Participants :
        WF_vars(Interval(p)) /\ WF_vars(HandleStorageChange(p))

SpecTickerFair == SpecTicker /\ TickerFairness

-----------------------------------------------------------------------------
(* A match played through the board: every claim at the board's price      *)

\* handleCellClick in claim mode: a cell of claimableCells is claimed at the
\* board's price (getGoldCostForNewTile, getUnitCostForTile, in tenths), a
\* click on any other cell does nothing.
handleCellClick(S, p, c) ==
    LET gs == Get(S.gameState[p])
        me == PlayerOf(gs.players, p)
        cell == TileAt(gs.grid, c)
        goldCost == (10 + 2 * Len(me.tiles)) * Tenth
        unitCost == IF cell.ownerId = NULL THEN 0
                    ELSE (5 + cell.defenseBonus) * Tenth
        claimable ==
            /\ isAdjacent(me.tiles, c[1], c[2])
            /\ c[1] \in 0..(GRID_SIZE - 1) /\ c[2] \in 0..(GRID_SIZE - 1)
            /\ \/ cell.ownerId = NULL /\ me.gold >= goldCost
               \/ Contested(cell, p) /\ me.gold >= goldCost /\ me.units >= unitCost
    IN IF claimable THEN claimTileCall(S, p, c[1], c[2], goldCost, unitCost)
       ELSE S

RECURSIVE ClickPath(_, _, _)
ClickPath(S, p, path) ==
    IF path = <<>> THEN S
    ELSE LET S1 == Drain(handleCellClick(S, p, Head(path)))
         IN IF S1 = S1 THEN ClickPath(S1, p, Tail(path)) ELSE S1

\* Two thirds into a match, after 1520 ticks at p3: p3 and then p1 have
\* each bought eight tiles of column 3 and stand at (3, 12) and (3, 11).
Met ==
    ClickPath(
        ClickPath(TicksAt([Started EXCEPT !.now = 2000 * TICK_MS], "p3", 1520),
                  "p3", [i \in 1..8 |-> <<3, 20 - i>>]),
        "p1", [i \in 1..8 |-> <<3, 3 + i>>])

\* After 430 more ticks p1 has built a UNIT construct on its start and p3
\* one on (3, 12); after 50 more p1 has 5 units, has demolished its own
\* construct, has bought (3, 12) for 28 gold and 5 units and has demolished
\* the construct it found there.
Raided ==
    Fresh(Drain(demolishConstructCall(
        ClickPath(
            Drain(demolishConstructCall(
                TicksAt(
                    Drain(buildConstructCall(
                        Drain(buildConstructCall(TicksAt(Met, "p1", 430), "p1", 3, 3, UNIT)),
                        "p3", 3, 12, UNIT)),
                    "p1", 50),
                "p1", 3, 3)),
            "p1", <<<<3, 12>>>>),
        "p1", 3, 12)))

InitRaid == Starts(Raided)

SpecRaid == InitRaid /\ [][NextTicker]_vars

-----------------------------------------------------------------------------
(* Construction on its own: the tabs build and demolish, nobody claims     *)

\* One tick more than LongWait: everybody can pay for any construct.
InitBuild == Starts(Siege(LongWait + 1))

Build(p) ==
    /\ Live
    /\ ops < MaxBuilds
    /\ \E b \in BuildInputs :
         LET S == buildConstructCall(Cur, p, b[1][1], b[1][2], b[2])
         IN Fits(S) /\ Becomes(Counted(S))

Demolish(p) ==
    /\ Live
    /\ ops < MaxBuilds
    /\ \E c \in DemolishCoords :
         LET S == demolishConstructCall(Cur, p, c[1], c[2])
         IN Fits(S) /\ Becomes(Counted(S))

NextBuild ==
    \/ \E p \in Participants : Build(p)
    \/ \E p \in Participants : Demolish(p)
    \/ \E p \in Participants : HandleStorageChange(p)

SpecBuild == InitBuild /\ [][NextBuild]_vars

-----------------------------------------------------------------------------
(* The lobby: tabs create, join, ready up, start, reset; the timers run    *)

\* Nobody has created a lobby yet.
Empty ==
    [lobbyState |-> [q \in Participants |-> None],
     gameState  |-> [q \in Participants |-> None],
     storage    |-> None,
     inbox      |-> [q \in Participants |-> <<>>],
     created    |-> {},
     now        |-> 0,
     ticks      |-> [q \in Participants |-> 0],
     ops        |-> 0,
     lobbyError |-> [q \in Participants |-> ""],
     joined     |-> {},
     beats      |-> 0,
     call       |-> Idle]

\* p1 has created the lobby, p2 has joined it and closed its tab.
Gathering == Fresh(Drain(joinLobby(Drain(createLobby(Empty, "p1")), "p2")))

\* p1 has created the lobby, p3 has joined it, both are ready.
ReadyDuel ==
    LET met == Drain(joinLobby(Drain(createLobby(Empty, "p1")), "p3"))
    IN Fresh(Drain(toggleReady(Drain(toggleReady(met, "p1")), "p3")))

\* The duel was started by p1 and ended by p3 with the End Game button.
Played ==
    Fresh(Drain(resetGame(Drain(startGame(ReadyDuel, "p1")), "p3")))

InitLobby == \E S \in {Empty, Gathering, ReadyDuel, Played} : Starts(S)

\* Every call of a lobby operation counts against the bound on them.
CountedCall(S) == [S EXCEPT !.ops = @ + 1]

\* The Lobby screen is what the tab p shows: it can render p's own row.
InLobbyScreen(p) ==
    /\ IsSome(lobbyState[p])
    /\ ~Get(lobbyState[p]).gameStarted
    /\ HasPlayer(Get(lobbyState[p]).players, p)

\* Home calls createLobby; the lobby gets an id no lobby had before.
CreateLobby(p) ==
    /\ Live
    /\ ops < MaxLobbyOps
    /\ ~IsSome(lobbyState[p])
    /\ ~IsSome(storage)
    /\ LET S == createLobby(Cur, p) IN Fits(S) /\ Becomes(CountedCall(S))

\* The guest that arrives next: the first that has not joined yet.
Arriving ==
    LET left == {i \in 1..Len(Guests) : Guests[i] \notin joined} IN
    IF left = {} THEN {} ELSE {Guests[CHOOSE i \in left : \A j \in left : i <= j]}

\* Home calls joinLobby.
JoinLobby(p) ==
    /\ Live
    /\ ops < MaxLobbyOps
    /\ p \in Participants => ~IsSome(lobbyState[p])
    /\ LET S == joinLobby(Cur, p) IN Fits(S) /\ Becomes(CountedCall(S))

ToggleReady(p) ==
    /\ Live
    /\ ops < MaxLobbyOps
    /\ InLobbyScreen(p)
    /\ LET S == toggleReady(Cur, p) IN Fits(S) /\ Becomes(CountedCall(S))

ChangeFaction(p) ==
    /\ Live
    /\ ops < MaxLobbyOps
    /\ InLobbyScreen(p)
    /\ \E i \in 1..Len(Faction) :
         LET S == changeFaction(Cur, p, Faction[i])
         IN Fits(S) /\ Becomes(CountedCall(S))

StartMatch(p) ==
    /\ Live
    /\ ops < MaxLobbyOps
    /\ InLobbyScreen(p)
    /\ p = Get(lobbyState[p]).host
    /\ canStartGame(Get(lobbyState[p]))
    /\ LET S == startGame(Cur, p) IN Fits(S) /\ Becomes(CountedCall(S))

\* The End Game button of the board and the victory screen call resetGame.
ResetGame(p) ==
    /\ Live
    /\ ops < MaxLobbyOps
    /\ IsSome(lobbyState[p])
    /\ IsSome(gameState[p])
    /\ LET S == resetGame(Cur, p) IN Fits(S) /\ Becomes(CountedCall(S))

Heartbeat(p) ==
    /\ Live
    /\ beats < MaxBeats
    /\ p \in created
    /\ LET S == heartbeat(Cur, p) IN Fits(S) /\ Becomes(S)

LobbyCheck(p) ==
    /\ Live
    /\ beats < MaxBeats
    /\ p \in joined
    /\ LET S == lobbyCheck(Cur, p) IN Becomes(S)

\* A poll that finds nothing new changes nothing and is not a step.
Poll(q) ==
    /\ Live
    /\ beats < MaxBeats
    /\ IsSome(lobbyState[q])
    /\ LET S == checkForUpdates(Cur, q)
       IN S # Cur /\ Becomes([S EXCEPT !.beats = @ + 1, !.call = Idle])

NextLobby ==
    \/ \E p \in Participants : CreateLobby(p)
    \/ \E p \in Participants \cup Arriving : JoinLobby(p)
    \/ \E p \in Participants : ToggleReady(p)
    \/ \E p \in Participants : ChangeFaction(p)
    \/ \E p \in Participants : StartMatch(p)
    \/ \E p \in Participants : ResetGame(p)
    \/ \E p \in Participants : Heartbeat(p)
    \/ \E p \in Participants : LobbyCheck(p)
    \/ \E p \in Participants : HandleStorageChange(p)
    \/ \E p \in Participants : Poll(p)

SpecLobby == InitLobby /\ [][NextLobby]_vars

-----------------------------------------------------------------------------
(* The match with its end: the engine, and End Game at any tab             *)

\* The End Game button of GameBoard, shown while the tab holds a GameState.
EndGame(p) ==
    /\ Live
    /\ IsSome(lobbyState[p])
    /\ IsSome(gameState[p])
    /\ LET S == resetGame(Cur, p) IN Fits(S) /\ Becomes(S)

NextMatch ==
    \/ Next
    \/ \E p \in Participants : EndGame(p)

SpecMatch == Init /\ [][NextMatch]_vars

-----------------------------------------------------------------------------
(* Two tabs acting at once: claims and builds from the same snapshot       *)

\* Successful engine calls within one exploration of the duel.
MaxDuel == 2

\* The siege after p1 also took the tile right of its start: the free tile
\* (4, 4) is next to p1's (4, 3) and next to p3's (3, 4).
Standoff == Fresh(ClaimPath(Siege(LongWait + 1), "p1", <<<<4, 3>>>>))

\* The standoff after p3 built a DEFENSE construct on (3, 4).
Fortified == Fresh(Drain(buildConstructCall(Standoff, "p3", 3, 4, DEFENSE)))

InitDuel == \E S \in {Standoff, Fortified, LastStand(LongWait)} : Starts(S)

\* The tile both can take, p1's start and p3's tile below it.
DuelCoords == {<<4, 4>>, <<3, 3>>, <<3, 4>>}

DuelClaim(p) ==
    /\ Live
    /\ ops < MaxDuel
    /\ \E c \in DuelCoords :
         LET S == claimTileCall(Cur, p, c[1], c[2], 0, 0)
         IN S.call.ret = "true" /\ Fits(S) /\ Becomes(Counted(S))

DuelBuild(p) ==
    /\ Live
    /\ ops < MaxDuel
    /\ \E c \in DuelCoords :
         LET S == buildConstructCall(Cur, p, c[1], c[2], DEFENSE)
         IN S.call.ret = "true" /\ Fits(S) /\ Becomes(Counted(S))

DuelDemolish(p) ==
    /\ Live
    /\ ops < MaxDuel
    /\ \E c \in DuelCoords :
         LET S == demolishConstructCall(Cur, p, c[1], c[2])
         IN S.call.ret = "true" /\ Fits(S) /\ Becomes(Counted(S))

NextDuel ==
    \/ \E p \in Participants : DuelClaim(p)
    \/ \E p \in Participants : DuelBuild(p)
    \/ \E p \in Participants : DuelDemolish(p)
    \/ \E p \in Participants : HandleStorageChange(p)
    \/ \E p \in Participants : CheckForUpdates(p)

SpecDuel == InitDuel /\ [][NextDuel]_vars

-----------------------------------------------------------------------------
(* A player falls while the match goes on                                  *)

\* Successful engine calls, and ticker callbacks, within one exploration of
\* the fall.
MaxFall == 3
MaxFallTicks == 1

\* p3 has taken the only tile of p1; p2 still holds its own, so the match
\* goes on, and every tab has handled every event.
Ousted == Fresh(ClaimPath(Siege(LongWait + 1), "p3", <<startingPositions[1]>>))

InitFall == \E S \in {Siege(LongWait + 1), Ousted} : Starts(S)

\* p1's start, its right-hand neighbour, and the tile between that and p3.
FallCoords == {<<3, 3>>, <<4, 3>>, <<4, 4>>}

FallClaim(p) ==
    /\ Live
    /\ ops < MaxFall
    /\ \E c \in FallCoords :
         LET S == claimTileCall(Cur, p, c[1], c[2], 0, 0)
         IN Fits(S) /\ Becomes(Counted(S))

FallBuild(p) ==
    /\ Live
    /\ ops < MaxFall
    /\ \E c \in FallCoords :
         LET S == buildConstructCall(Cur, p, c[1], c[2], DEFENSE)
         IN Fits(S) /\ Becomes(Counted(S))

FallDemolish(p) ==
    /\ Live
    /\ ops < MaxFall
    /\ \E c \in FallCoords :
         LET S == demolishConstructCall(Cur, p, c[1], c[2])
         IN Fits(S) /\ Becomes(Counted(S))

FallTick(p) ==
    /\ Live
    /\ tickerRuns(Cur, p)
    /\ SumOver(ticks, Participants) < MaxFallTicks
    /\ LET S == tick(Cur, p) IN Fits(S) /\ Becomes(S)

NextFall ==
    \/ \E p \in Participants : FallClaim(p)
    \/ \E p \in Participants : FallBuild(p)
    \/ \E p \in Participants : FallDemolish(p)
    \/ \E p \in Participants : FallTick(p)
    \/ \E p \in Participants : HandleStorageChange(p)
    \/ \E p \in Participants : CheckForUpdates(p)

SpecFall == InitFall /\ [][NextFall]_vars

-----------------------------------------------------------------------------
(* Properties                                                              *)

\* Every GameState there is: the one each tab holds, the one in the lobby
\* record, and those travelling in storage events not yet handled.
Snapshots ==
    {Get(gameState[q]) : q \in {r \in Participants : IsSome(gameState[r])}}
        \cup (IF IsSome(storage) /\ IsSome(Get(storage).gameState)
              THEN {Get(Get(storage).gameState)} ELSE {})
        \cup UNION {{Get(inbox[q][i].gameState) :
                        i \in {j \in 1..Len(inbox[q]) : IsSome(inbox[q][j].gameState)}} :
                    q \in Participants}

\* The tab p holds a lobby and a game in which p plays.
InGame(p) ==
    /\ IsSome(lobbyState[p])
    /\ IsSome(gameState[p])
    /\ HasPlayer(Get(gameState[p]).players, p)

\* The step made a call that returned false and changed nothing and sent
\* nothing.
Rejected ==
    /\ call'.ret = "false"
    /\ UNCHANGED <<lobbyState, gameState, storage, inbox>>

\* The step ran the ticker callback of tab p.
Ticked(p) == ticks'[p] = ticks[p] + 1

\* C1: in every GameState, at every tab, in the lobby record and in every
\* message, each player's tiles are, as a set, exactly the coordinates of the
\* grid whose tile that player owns.
C1_TilesMatchGrid ==
    \A gs \in Snapshots :
        \A i \in 1..Len(gs.players) :
            TileSet(gs.players[i].tiles) = OwnedBy(gs.grid, gs.players[i].id)

\* p1 has received the snapshot of the contested claim that took its tile.
C1_Witness ==
    /\ IsSome(gameState["p1"])
    /\ LET gs == Get(gameState["p1"]) IN
         /\ TileAt(gs.grid, <<3, 3>>).ownerId = "p3"
         /\ PlayerOf(gs.players, "p1").tiles = <<>>
         /\ <<3, 3>> \in TileSet(PlayerOf(gs.players, "p3").tiles)

\* C2: in every GameState, a tile nobody owns has no colour, no construct
\* and no defence bonus.
C2_UnownedTilesAreBare ==
    \A gs \in Snapshots :
        \A c \in DOMAIN gs.grid :
            gs.grid[c].ownerId = NULL =>
                /\ gs.grid[c].color = NULL
                /\ gs.grid[c].construct = None
                /\ gs.grid[c].defenseBonus = 0

\* A tab that could pay for the construct has tried to build on a tile that
\* nobody owns.
C2_Witness ==
    /\ call.op = "buildConstruct"
    /\ call.ret = "false"
    /\ call.type = GOLD
    /\ InGame(call.by)
    /\ LET gs == Get(gameState[call.by]) IN
         /\ TileAt(gs.grid, <<call.x, call.y>>) = EmptyTile
         /\ PlayerOf(gs.players, call.by).gold >= 20 * Tenth

\* C3: a claimTile whose target tile is not next (left, right, above or
\* below) to any of the caller's tiles returns false, changes no state and
\* sends nothing, whatever gold and units the caller has.
C3_NonAdjacentClaimRejected ==
    [][(/\ call'.op = "claimTile"
        /\ InGame(call'.by)
        /\ InGrid(call'.x, call'.y)
        /\ ~\E t \in TileSet(PlayerOf(Get(gameState[call'.by]).players, call'.by).tiles) :
               Abs(t[1] - call'.x) + Abs(t[2] - call'.y) = 1)
       => Rejected]_vars

\* A claim of a tile in the middle of the board, which the caller could pay
\* for, was rejected.
C3_Witness ==
    /\ call.op = "claimTile"
    /\ call.ret = "false"
    /\ <<call.x, call.y>> = <<10, 10>>
    /\ InGame(call.by)
    /\ LET me == PlayerOf(Get(gameState[call.by]).players, call.by) IN
         /\ me.gold >= call.goldCost
         /\ me.units >= call.unitCost
         /\ call.goldCost > 0

\* C4: claimTile returns false and changes nothing when the caller's gold is
\* below goldCost, and when the tile belongs to another player and the
\* caller's units are below unitCost; an unowned tile next to the caller's
\* territory is claimed whenever the gold suffices, whatever the units.
C4_ClaimNeedsResources ==
    [][(call'.op = "claimTile" /\ InGame(call'.by) /\ InGrid(call'.x, call'.y))
       => LET gs == Get(gameState[call'.by])
              me == PlayerOf(gs.players, call'.by)
              tile == TileAt(gs.grid, <<call'.x, call'.y>>)
          IN /\ me.gold < call'.goldCost => Rejected
             /\ (tile.ownerId \notin {NULL, call'.by} /\ me.units < call'.unitCost)
                    => Rejected
             /\ (/\ tile.ownerId = NULL
                 /\ me.gold >= call'.goldCost
                 /\ isAdjacent(me.tiles, call'.x, call'.y))
                    => call'.ret = "true"]_vars

\* A claim of another player's tile next to the caller's own, which the
\* caller had the gold but not the units for, was rejected.
C4_Witness ==
    /\ call.op = "claimTile"
    /\ call.ret = "false"
    /\ InGame(call.by)
    /\ LET gs == Get(gameState[call.by])
           me == PlayerOf(gs.players, call.by)
           tile == TileAt(gs.grid, <<call.x, call.y>>)
       IN /\ tile.ownerId \notin {NULL, call.by}
          /\ isAdjacent(me.tiles, call.x, call.y)
          /\ call.goldCost > 0
          /\ me.gold >= call.goldCost
          /\ me.units < call.unitCost

\* C5: a successful claimTile(x, y, goldCost, unitCost) by A takes exactly
\* goldCost from A's gold, takes unitCost from A's units exactly when the
\* tile belonged to another player, makes the tile A's in A's colour, has
\* (x, y) in A's tiles and no longer in the previous owner's, and changes no
\* other tile and no other player's record.
C5_ClaimEffects ==
    [][(call'.op = "claimTile" /\ call'.ret = "true")
       => LET a == call'.by
              c == <<call'.x, call'.y>>
              gs == Get(gameState[a])
              after == Get(gameState'[a])
              tile == TileAt(gs.grid, c)
              contested == tile.ownerId \notin {NULL, a}
              A == PlayerOf(gs.players, a)
              A2 == PlayerOf(after.players, a)
          IN /\ A2.gold = A.gold - call'.goldCost
             /\ A2.units = IF contested THEN A.units - call'.unitCost ELSE A.units
             /\ TileAt(after.grid, c).ownerId = a
             /\ TileAt(after.grid, c).color = A.color
             /\ c \in TileSet(A2.tiles)
             /\ contested => c \notin TileSet(PlayerOf(after.players, tile.ownerId).tiles)
             /\ \A d \in ((DOMAIN gs.grid) \cup (DOMAIN after.grid)) \ {c} :
                    TileAt(after.grid, d) = TileAt(gs.grid, d)
             /\ Len(after.players) = Len(gs.players)
             /\ \A i \in 1..Len(gs.players) :
                    gs.players[i].id \notin {a, tile.ownerId}
                        => after.players[i] = gs.players[i]]_vars

\* p3 has taken p1's only tile for 25 gold and 5 units, all the gold it had.
C5_Witness ==
    /\ call.op = "claimTile"
    /\ call.ret = "true"
    /\ call.by = "p3"
    /\ <<call.x, call.y>> = <<3, 3>>
    /\ call.goldCost = 25 * Tenth
    /\ call.unitCost = 5 * Tenth
    /\ LET gs == Get(gameState["p3"]) IN
         /\ PlayerOf(gs.players, "p3").gold = 0
         /\ PlayerOf(gs.players, "p1").tiles = <<>>
         /\ TileAt(gs.grid, <<3, 3>>).ownerId = "p3"

\* C6: after a successful claimTile, if exactly one player still has tiles
\* the game is over and that player is the winner; if two or more players
\* still have tiles, gameOver and winner are as they were.
C6_WinByElimination ==
    [][(call'.op = "claimTile" /\ call'.ret = "true")
       => LET gs == Get(gameState[call'.by])
              after == Get(gameState'[call'.by])
              active == {i \in 1..Len(after.players) : after.players[i].tiles # <<>>}
          IN /\ Cardinality(active) = 1 =>
                    /\ after.gameOver
                    /\ \A i \in active : after.winner = after.players[i].id
             /\ Cardinality(active) >= 2 =>
                    /\ after.gameOver = gs.gameOver
                    /\ after.winner = gs.winner]_vars

\* p3 has taken the last tile of the only other player who had any, before
\* the time was up, and is the winner.
C6_Witness ==
    /\ call.op = "claimTile"
    /\ call.ret = "true"
    /\ call.by = "p3"
    /\ LET gs == Get(gameState["p3"]) IN
         /\ now < gs.gameEndTime
         /\ gs.gameOver
         /\ gs.winner = "p3"
         /\ \A i \in 1..Len(gs.players) :
                gs.players[i].id # "p3" => gs.players[i].tiles = <<>>

\* The first player, in the order of the roster, among those with the most
\* tiles; nobody when nobody has a tile.
Leader(players) ==
    LET top == {i \in 1..Len(players) :
                   /\ Len(players[i].tiles) > 0
                   /\ \A j \in 1..Len(players) :
                          Len(players[i].tiles) >= Len(players[j].tiles)}
    IN IF top = {} THEN NULL
       ELSE players[CHOOSE i \in top : \A j \in top : i <= j].id

\* The player with strictly more tiles than every other player; nobody when
\* the most tiles are shared.
StrictLeader(players) ==
    LET top == {i \in 1..Len(players) :
                   \A j \in (1..Len(players)) \ {i} :
                       Len(players[i].tiles) > Len(players[j].tiles)}
    IN IF top = {} THEN NULL ELSE players[CHOOSE i \in top : TRUE].id

\* C7, as amended: a ticker tick that finds now >= gameEndTime sets gameOver
\* and makes the winner the first player, in the order of the roster, among
\* those with the most tiles (nobody only when nobody has a tile).
C7_WinnerAtTimeout ==
    [][\A p \in Participants :
          (/\ Ticked(p)
           /\ now >= Get(gameState[p]).gameEndTime)
          => /\ Get(gameState'[p]).gameOver
             /\ Get(gameState'[p]).winner = Leader(Get(gameState[p]).players)]_vars

\* The time ran out on a match in which every player held one tile, and the
\* host, first in the roster, was made the winner.
C7_Witness ==
    \E p \in Participants :
        /\ IsSome(gameState[p])
        /\ LET gs == Get(gameState[p]) IN
             /\ now >= gs.gameEndTime
             /\ gs.gameOver
             /\ gs.winner = "p1"
             /\ Len(gs.players) = 3
             /\ \A i \in 1..Len(gs.players) : Len(gs.players[i].tiles) = 1

\* C7, as stated: a ticker tick that finds now >= gameEndTime sets gameOver
\* and makes the winner the player with strictly the most tiles, and leaves
\* the winner null when the most tiles are shared.
C7_AsStated ==
    [][\A p \in Participants :
          (/\ Ticked(p)
           /\ now >= Get(gameState[p]).gameEndTime)
          => /\ Get(gameState'[p]).gameOver
             /\ Get(gameState'[p]).winner = StrictLeader(Get(gameState[p]).players)]_vars

\* C8: a ticker tick before gameEndTime adds goldRate / 10 to the gold and
\* unitRate / 10 to the units of every player who has a tile (a rate r adds r
\* tenths) and changes nothing else; so, the tabs having started with no
\* gold, after exactly 10 ticks of its ticker a tab shows 1 gold for every
\* player with a tile and goldRate 1.
C8_TickAccrues ==
    [][\A p \in Participants :
          (Ticked(p) /\ now < Get(gameState[p]).gameEndTime)
          => LET gs == Get(gameState[p])
                 after == Get(gameState'[p])
             IN /\ [after EXCEPT !.players = gs.players] = gs
                /\ Len(after.players) = Len(gs.players)
                /\ \A i \in 1..Len(gs.players) :
                     LET a == gs.players[i]
                         b == after.players[i]
                     IN /\ b.gold = a.gold + (IF a.tiles # <<>> THEN a.goldRate ELSE 0)
                        /\ b.units = a.units + (IF a.tiles # <<>> THEN a.unitRate ELSE 0)
                        /\ [b EXCEPT !.gold = a.gold, !.units = a.units] = a
                        /\ (ticks'[p] = 10 /\ a.tiles # <<>> /\ a.goldRate = 1)
                               => b.gold = 1 * Tenth]_vars

\* A tab's ticker has run 10 times on a running match: the tab's own player
\* has 1 gold, and the eliminated player still has none.
C8_Witness ==
    \E p \in Participants :
        /\ ticks[p] = 10
        /\ LET gs == Get(gameState[p]) IN
             /\ ~gs.gameOver
             /\ PlayerOf(gs.players, p).gold = 1 * Tenth
             /\ \E i \in 1..Len(gs.players) :
                    gs.players[i].tiles = <<>> /\ gs.players[i].gold = 0

\* C9: when a tab's successful buildConstruct(x, y, type) is followed at once
\* by its demolishConstruct(x, y), the demolition succeeds and leaves the
\* tile without construct, and leaves the goldRate of before the build for
\* GOLD, the unitRate of before the build for UNIT, and no defence bonus for
\* DEFENSE.
C9_BuildThenDemolish ==
    [][(/\ call.op = "buildConstruct"
        /\ call.ret = "true"
        /\ call'.op = "demolishConstruct"
        /\ call'.by = call.by
        /\ <<call'.x, call'.y>> = <<call.x, call.y>>)
       => LET after == Get(gameState'[call.by])
              A2 == PlayerOf(after.players, call.by)
              tile == TileAt(after.grid, <<call.x, call.y>>)
          IN /\ call'.ret = "true"
             /\ tile.construct = None
             /\ call.type = GOLD => A2.goldRate = call.goldRate0
             /\ call.type = UNIT => A2.unitRate = call.unitRate0
             /\ call.type = DEFENSE => tile.defenseBonus = 0]_vars

\* A tab has demolished the GOLD construct it had built the step before.
C9_Witness ==
    /\ call.op = "demolishConstruct"
    /\ call.ret = "true"
    /\ call.follows = GOLD
    /\ TileAt(Get(gameState[call.by]).grid, <<call.x, call.y>>).construct = None

\* No tile of any GameState holds more than one construct or a construct of
\* type NONE.
ConstructsAreReal ==
    \A gs \in Snapshots :
        \A c \in DOMAIN gs.grid :
            /\ Len(gs.grid[c].construct) <= 1
            /\ gs.grid[c].construct # None
                   => Get(gs.grid[c].construct).type \in {GOLD, UNIT, DEFENSE}

\* C10: buildConstruct returns false and changes nothing unless the tile is
\* the caller's, has no construct, the type is GOLD, UNIT or DEFENSE, and the
\* caller has 20, 15 or 25 gold for it; and no tile ever holds two constructs
\* or a construct of type NONE.
C10_BuildNeedsAll ==
    [][/\ (call'.op = "buildConstruct" /\ InGame(call'.by) /\ InGrid(call'.x, call'.y))
          => LET gs == Get(gameState[call'.by])
                 me == PlayerOf(gs.players, call'.by)
                 tile == TileAt(gs.grid, <<call'.x, call'.y>>)
                 price == CASE call'.type = GOLD -> 20 * Tenth
                            [] call'.type = UNIT -> 15 * Tenth
                            [] call'.type = DEFENSE -> 25 * Tenth
                            [] OTHER -> 0
             IN ~(/\ tile.ownerId = call'.by
                  /\ tile.construct = None
                  /\ call'.type \in {GOLD, UNIT, DEFENSE}
                  /\ me.gold >= price)
                => Rejected
       /\ ConstructsAreReal']_vars

\* A tab that could pay for a GOLD construct has tried to build it on a tile
\* of its own that holds a construct already.
C10_Witness ==
    /\ call.op = "buildConstruct"
    /\ call.ret = "false"
    /\ call.type = GOLD
    /\ InGame(call.by)
    /\ LET gs == Get(gameState[call.by])
           tile == TileAt(gs.grid, <<call.x, call.y>>)
       IN /\ tile.ownerId = call.by
          /\ tile.construct # None
          /\ PlayerOf(gs.players, call.by).gold >= 20 * Tenth

\* The players of `after` other than a are those of `before`, record for
\* record and in the same order.
OthersUntouched(before, after, a) ==
    /\ Len(after.players) = Len(before.players)
    /\ \A i \in 1..Len(before.players) :
           before.players[i].id # a => after.players[i] = before.players[i]

\* The tiles of `after` other than c are those of `before`.
OtherTilesUntouched(before, after, c) ==
    \A d \in (DOMAIN before.grid \cup DOMAIN after.grid) \ {c} :
        TileAt(after.grid, d) = TileAt(before.grid, d)

\* C11: a successful buildConstruct(x, y, type) by A takes exactly the price
\* of the type from A's gold, puts the construct {type, ownerId: A} on the
\* tile and has one effect: goldRate + 1 for GOLD, unitRate + 1 for UNIT,
\* defenseBonus = 10 for DEFENSE; the tile's owner and colour, A's tiles and
\* units, every other player, every other tile and the rest of the GameState
\* stay as they were.
C11_BuildEffects ==
    [][(call'.op = "buildConstruct" /\ call'.ret = "true")
       => LET a == call'.by
              c == <<call'.x, call'.y>>
              type == call'.type
              gs == Get(gameState[a])
              after == Get(gameState'[a])
              A == PlayerOf(gs.players, a)
              A2 == PlayerOf(after.players, a)
              tile == TileAt(gs.grid, c)
              tile2 == TileAt(after.grid, c)
              price == CASE type = GOLD -> 20 * Tenth
                         [] type = UNIT -> 15 * Tenth
                         [] type = DEFENSE -> 25 * Tenth
          IN /\ A2 = [A EXCEPT !.gold = @ - price,
                               !.goldRate = IF type = GOLD THEN @ + 1 ELSE @,
                               !.unitRate = IF type = UNIT THEN @ + 1 ELSE @]
             /\ tile2 = [tile EXCEPT
                            !.construct = Some([type |-> type, ownerId |-> a]),
                            !.defenseBonus = IF type = DEFENSE THEN 10 ELSE @]
             /\ OthersUntouched(gs, after, a)
             /\ OtherTilesUntouched(gs, after, c)
             /\ after = [gs EXCEPT !.players = after.players, !.grid = after.grid]]_vars

\* A tab has built a DEFENSE construct and paid 25 gold for it.
C11_Witness ==
    /\ call.op = "buildConstruct"
    /\ call.ret = "true"
    /\ call.type = DEFENSE
    /\ LET tile == TileAt(Get(gameState[call.by]).grid, <<call.x, call.y>>) IN
         /\ tile.defenseBonus = 10
         /\ tile.construct = Some([type |-> DEFENSE, ownerId |-> call.by])

\* C12: demolishConstruct(x, y) returns false and changes nothing unless the
\* tile is the caller's and holds a construct; a successful call clears the
\* construct and undoes the effect of its type on the caller (goldRate - 1
\* for GOLD, unitRate - 1 for UNIT, defenseBonus = 0 for DEFENSE) and leaves
\* gold, units, the tile's owner, every other player and every other tile as
\* they were.
C12_DemolishEffects ==
    [][(call'.op = "demolishConstruct" /\ InGame(call'.by) /\ InGrid(call'.x, call'.y))
       => LET a == call'.by
              c == <<call'.x, call'.y>>
              gs == Get(gameState[a])
              A == PlayerOf(gs.players, a)
              tile == TileAt(gs.grid, c)
          IN IF tile.ownerId = a /\ tile.construct # None
             THEN LET type == Get(tile.construct).type
                      after == Get(gameState'[a])
                  IN /\ call'.ret = "true"
                     /\ PlayerOf(after.players, a) =
                            [A EXCEPT !.goldRate = IF type = GOLD THEN @ - 1 ELSE @,
                                      !.unitRate = IF type = UNIT THEN @ - 1 ELSE @]
                     /\ TileAt(after.grid, c) =
                            [tile EXCEPT !.construct = None,
                                         !.defenseBonus = IF type = DEFENSE THEN 0 ELSE @]
                     /\ OthersUntouched(gs, after, a)
                     /\ OtherTilesUntouched(gs, after, c)
                     /\ after = [gs EXCEPT !.players = after.players, !.grid = after.grid]
             ELSE Rejected]_vars

\* A tab has demolished the DEFENSE construct it had built the step before.
C12_Witness ==
    /\ call.op = "demolishConstruct"
    /\ call.ret = "true"
    /\ call.follows = DEFENSE
    /\ LET tile == TileAt(Get(gameState[call.by]).grid, <<call.x, call.y>>) IN
         /\ tile.construct = None
         /\ tile.defenseBonus = 0
         /\ tile.ownerId = call.by

\* Every roster there is: the one of each tab's LobbyState and the one of
\* the lobby record.
Rosters ==
    {Get(lobbyState[q]).players : q \in {r \in Participants : IsSome(lobbyState[r])}}
        \cup (IF IsSome(storage) THEN {Get(storage).lobbyState.players} ELSE {})

\* The host every tab's LobbyState and the lobby record name.
Hosts ==
    {Get(lobbyState[q]).host : q \in {r \in Participants : IsSome(lobbyState[r])}}
        \cup (IF IsSome(storage) THEN {Get(storage).lobbyState.host} ELSE {})

\* C13: in every tab's LobbyState and in the lobby record, host is the tab
\* that created the lobby, whatever joins, ready toggles, faction changes,
\* starts, resets, heartbeats, polls and storage-change merges have happened.
C13_HostIsCreator ==
    /\ Cardinality(created) <= 1
    /\ Hosts \subseteq created

\* The creator's heartbeat has run and a tab that joined has taken over a
\* lobby record written by the creator after the match was started.
C13_Witness ==
    /\ created = {"p1"}
    /\ beats > 0
    /\ "p3" \in joined
    /\ IsSome(lobbyState["p3"])
    /\ Get(lobbyState["p3"]).gameStarted
    /\ Get(lobbyState["p3"]).host = "p1"
    /\ IsSome(storage)
    /\ Get(storage).lobbyState.host = "p1"

\* The step was a call of an operation of the context, not a delivery, a
\* poll or a timer callback.
Called == call'.op # ""

\* gameStarted went from false to true in some tab's LobbyState or in the
\* lobby record.
StartedNow ==
    \/ \E q \in Participants :
         /\ IsSome(lobbyState[q]) /\ ~Get(lobbyState[q]).gameStarted
         /\ IsSome(lobbyState'[q]) /\ Get(lobbyState'[q]).gameStarted
    \/ /\ IsSome(storage) /\ ~Get(storage).lobbyState.gameStarted
       /\ IsSome(storage') /\ Get(storage').lobbyState.gameStarted

\* Some copy of the lobby, or some event on its way to a tab, already says
\* that the match has been started.
StartedSomewhere ==
    \/ IsSome(storage) /\ Get(storage).lobbyState.gameStarted
    \/ \E q \in Participants :
         \/ IsSome(lobbyState[q]) /\ Get(lobbyState[q]).gameStarted
         \/ \E i \in 1..Len(inbox[q]) :
              \/ inbox[q][i].type = "START_GAME"
              \/ /\ IsSome(inbox[q][i].lobbyState)
                 /\ Get(inbox[q][i].lobbyState).gameStarted

\* C14: a call that turns gameStarted from false to true, in the caller's
\* LobbyState or in the lobby record, is a startGame by the host made while
\* the host's roster holds at least two players who are all ready, and it
\* leaves the host with the GameState of a match that ends 300000 ms later.
\* A step that is not a call (a delivery, a poll, a timer callback) turns
\* gameStarted to true only by copying it from a lobby copy or an event in
\* which the match was already started.
C14_StartOnlyByHostWhenReady ==
    [][StartedNow =>
         IF Called
         THEN /\ call'.op = "startGame"
              /\ IsSome(lobbyState[call'.by])
              /\ LET p == call'.by
                     ls == Get(lobbyState[p])
                 IN /\ ls.host = p
                    /\ Len(ls.players) >= 2
                    /\ \A i \in 1..Len(ls.players) : ls.players[i].isReady
                    /\ \A q \in Participants \ {p} :
                         lobbyState'[q] = lobbyState[q]
                    /\ IsSome(gameState'[p])
                    /\ Get(gameState'[p]).gameStarted
                    /\ ~Get(gameState'[p]).gameOver
                    /\ Get(gameState'[p]).gameEndTime = now + 300000
         ELSE StartedSomewhere]_vars

\* The host has started the match: its lobby and the lobby record say so and
\* it holds the new GameState.
C14_Witness ==
    /\ call.op = "startGame"
    /\ IsSome(lobbyState[call.by])
    /\ Get(lobbyState[call.by]).gameStarted
    /\ Get(lobbyState[call.by]).host = call.by
    /\ IsSome(storage)
    /\ Get(storage).lobbyState.gameStarted
    /\ IsSome(gameState[call.by])

\* What initializeGameState is to produce for the roster `players` at the
\* time t, with the starting tiles at `corners`.
FreshMatch(gs, players, t, corners) ==
    LET n == IF Len(players) < 3 THEN Len(players) ELSE 3 IN
    /\ DOMAIN gs.grid = {corners[i] : i \in 1..n}
    /\ \A i \in 1..n :
         /\ gs.grid[corners[i]] =
                [ownerId |-> players[i].id, color |-> players[i].color,
                 construct |-> None, defenseBonus |-> 0]
         /\ gs.players[i].id = players[i].id
         /\ gs.players[i].tiles = <<corners[i]>>
    /\ Len(gs.players) = Len(players)
    /\ gs.gameOver = FALSE
    /\ gs.winner = NULL
    /\ gs.gameEndTime = t + 300000
    /\ gs.currentTurn = players[1].id

\* C15 (amended): the GameState startGame produces has a grid nobody owns
\* except that the first, second and third player of the roster own the one
\* tile (3,3), (20,20) and (3,20) in their colour; each of them has exactly
\* that tile in tiles; gameOver is false, winner null, gameEndTime is
\* now + 300000, currentTurn the first player; no tile has a construct or a
\* defence bonus.
C15_StartingBoard ==
    [][(call'.op = "startGame" /\ IsSome(lobbyState[call'.by]))
       => /\ IsSome(gameState'[call'.by])
          /\ FreshMatch(Get(gameState'[call'.by]),
                        Get(lobbyState[call'.by]).players, now,
                        << <<3, 3>>, <<20, 20>>, <<3, 20>> >>)]_vars

\* The host has started a match of three players.
C15_Witness ==
    /\ call.op = "startGame"
    /\ IsSome(gameState[call.by])
    /\ LET gs == Get(gameState[call.by]) IN
         /\ Len(gs.players) = 3
         /\ TileAt(gs.grid, <<3, 20>>).ownerId = gs.players[3].id
         /\ gs.players[3].tiles = << <<3, 20>> >>

\* C15 as stated: the second and the third starting tile are (21,21) and
\* (3,21).
C15_AsStated ==
    [][(call'.op = "startGame" /\ IsSome(lobbyState[call'.by]))
       => /\ IsSome(gameState'[call'.by])
          /\ FreshMatch(Get(gameState'[call'.by]),
                        Get(lobbyState[call'.by]).players, now,
                        << <<3, 3>>, <<21, 21>>, <<3, 21>> >>)]_vars

\* The call was a startGame that produced a GameState at the caller.
StartedMatch ==
    /\ call'.op = "startGame"
    /\ IsSome(lobbyState[call'.by])
    /\ IsSome(gameState'[call'.by])

\* C16: in the GameState every startGame produces, also one that follows
\* earlier matches, resets and faction changes, every player has gold 0,
\* units 0 and goldRate 1, a player of the Aliens has unitRate 1 and a
\* player of any other faction has unitRate 0.
C16_AsStated ==
    [][StartedMatch =>
         LET players == Get(gameState'[call'.by]).players IN
         \A i \in 1..Len(players) :
            /\ players[i].gold = 0
            /\ players[i].units = 0
            /\ players[i].goldRate = 1
            /\ players[i].unitRate =
                   IF players[i].faction = ALIENS THEN 1 ELSE 0]_vars


\* The rosters of every tab and of the lobby record, after the step.
RosterSizes ==
    {Len(Get(lobbyState[q]).players) : q \in {r \in Participants : IsSome(lobbyState[r])}}
        \cup (IF IsSome(storage) THEN {Len(Get(storage).lobbyState.players)} ELSE {})

\* What a joinLobby step does when it is refused, and when it may add.
JoinRefusals ==
    call'.op = "joinLobby" =>
        LET p == call'.by
            absent == ~IsSome(storage)
            full == IsSome(storage) /\ Len(Get(storage).lobbyState.players) >= 3
        IN /\ absent \/ full =>
                /\ lobbyState' = lobbyState
                /\ storage' = storage
                /\ inbox' = inbox
                /\ p \in Participants =>
                     lobbyError'[p] = IF absent THEN "Lobby not found"
                                      ELSE "Lobby is full"
           /\ ~(absent \/ full) =>
                /\ HasPlayer(Get(storage').lobbyState.players, p)
                /\ Len(Get(storage').lobbyState.players) <= 3
                /\ p \in Participants => lobbyError'[p] = ""

\* C17: joinLobby adds the caller only if the lobby record exists and holds
\* fewer than 3 players; without a record it sets 'Lobby not found', with 3
\* players 'Lobby is full', and changes neither the caller's LobbyState nor
\* the record.  No roster, of the record or of a tab, ever holds more than 3
\* players.
C17_AsStated ==
    [][JoinRefusals /\ (\A n \in RosterSizes' : n <= 3)]_vars


\* The step was a joinLobby that found a lobby record with room.
JoinedNow ==
    /\ call'.op = "joinLobby"
    /\ IsSome(storage)
    /\ Len(Get(storage).lobbyState.players) < 3

\* C18: a successful joinLobby gives the new player the first faction of
\* HUMANS, ALIENS, ROBOTS no existing player uses (HUMANS if all are used),
\* a colour no existing player uses whenever a faction base colour is
\* unused (else the base colour of the chosen faction), isReady false,
\* gold 0, units 0, goldRate 1, unitRate 0 and no tiles, and leaves the
\* records of the existing players as they were.
C18_JoinAssignsFreeFaction ==
    [][JoinedNow =>
         LET p == call'.by
             old == Get(storage).lobbyState.players
             new == Get(storage').lobbyState.players
             factions == {old[i].faction : i \in 1..Len(old)}
             colors == {old[i].color : i \in 1..Len(old)}
             bases == {baseColor(HUMANS), baseColor(ALIENS), baseColor(ROBOTS)}
             me == new[Len(new)]
         IN /\ Len(new) = Len(old) + 1
            /\ \A i \in 1..Len(old) : new[i] = old[i]
            /\ me.id = p
            /\ me.faction = IF HUMANS \notin factions THEN HUMANS
                            ELSE IF ALIENS \notin factions THEN ALIENS
                            ELSE IF ROBOTS \notin factions THEN ROBOTS
                            ELSE HUMANS
            /\ IF bases \ colors # {} THEN me.color \in bases \ colors
               ELSE me.color = baseColor(me.faction)
            /\ ~me.isReady
            /\ me.gold = 0 /\ me.units = 0
            /\ me.goldRate = 1 /\ me.unitRate = 0
            /\ me.tiles = <<>>
            /\ p \in Participants =>
                 lobbyState'[p] = Some(Get(storage').lobbyState)]_vars

\* A third player has joined a lobby whose players use HUMANS and ALIENS and
\* has been given ROBOTS with the colour of the Robots.
C18_Witness ==
    /\ call.op = "joinLobby"
    /\ IsSome(storage)
    /\ LET ps == Get(storage).lobbyState.players IN
       /\ Len(ps) = 3
       /\ ps[3].id = call.by
       /\ ps[1].faction = HUMANS /\ ps[2].faction = ALIENS
       /\ ps[3].faction = ROBOTS /\ ps[3].color = baseColor(ROBOTS)


\* The step was a changeFaction by a tab whose roster holds its own player.
ChangedFactionNow ==
    /\ call'.op = "changeFaction"
    /\ IsSome(lobbyState[call'.by])
    /\ HasPlayer(Get(lobbyState[call'.by]).players, call'.by)

ResetNow ==
    /\ call'.op = "resetGame"
    /\ IsSome(lobbyState[call'.by])

\* C20: after resetGame at a tab with a lobby the tab has no GameState, the
\* lobby record has none, gameStarted is false in the tab's LobbyState and
\* in the record, and every player has isReady false, no tiles, gold 0,
\* units 0, goldRate 1 and unitRate 1 exactly when it is the caller's own
\* record and its faction is ALIENS, else 0; lobbyId, host, the players in
\* the roster and their order, factions and colours are as before.
C20_ResetGame ==
    [][ResetNow =>
         LET p == call'.by
             old == Get(lobbyState[p])
             new == Get(lobbyState'[p])
         IN /\ gameState'[p] = None
            /\ IsSome(lobbyState'[p])
            /\ ~new.gameStarted
            /\ new.lobbyId = old.lobbyId
            /\ new.host = old.host
            /\ Len(new.players) = Len(old.players)
            /\ \A i \in 1..Len(old.players) :
                 /\ new.players[i].id = old.players[i].id
                 /\ new.players[i].faction = old.players[i].faction
                 /\ new.players[i].color = old.players[i].color
                 /\ ~new.players[i].isReady
                 /\ new.players[i].tiles = <<>>
                 /\ new.players[i].gold = 0
                 /\ new.players[i].units = 0
                 /\ new.players[i].goldRate = 1
                 /\ new.players[i].unitRate =
                        IF old.players[i].id = p /\ old.players[i].faction = ALIENS
                        THEN 1 ELSE 0
            /\ IsSome(storage) =>
                 /\ IsSome(storage')
                 /\ Get(storage').gameState = None
                 /\ Get(storage').lobbyState = new]_vars

\* A tab in a started match has called resetGame, and a player of the Aliens
\* who is not the caller has been left with unitRate 0.
C20_Witness ==
    /\ call.op = "resetGame"
    /\ IsSome(lobbyState[call.by])
    /\ gameState[call.by] = None
    /\ IsSome(storage)
    /\ Get(storage).gameState = None
    /\ ~Get(storage).lobbyState.gameStarted
    /\ \E i \in 1..Len(Get(lobbyState[call.by]).players) :
         LET pl == Get(lobbyState[call.by]).players[i] IN
         pl.id # call.by /\ pl.faction = ALIENS /\ pl.unitRate = 0


\* The message types whose payload is, or carries, a GameState.
SnapshotTypes ==
    {"GAME_STATE", "START_GAME", "CLAIM_TILE", "BUILD_CONSTRUCT", "DEMOLISH_CONSTRUCT"}

\* The state the step has led to.
After ==
    [lobbyState |-> lobbyState', gameState |-> gameState', storage |-> storage',
     inbox |-> inbox', created |-> created', now |-> now', ticks |-> ticks',
     ops |-> ops', lobbyError |-> lobbyError', joined |-> joined',
     beats |-> beats', call |-> call']

\* The step handled the storage event at the head of q's queue, a message of
\* one of the types that carry a snapshot.
DeliveredSnapshot(q) ==
    /\ inbox[q] # <<>>
    /\ Len(inbox'[q]) = Len(inbox[q]) - 1
    /\ IsSome(lobbyState[q])
    /\ Head(inbox[q]).kind = "msg"
    /\ Head(inbox[q]).type \in SnapshotTypes

\* C21: when a tab has handled a GAME_STATE, START_GAME, CLAIM_TILE,
\* BUILD_CONSTRUCT or DEMOLISH_CONSTRUCT message, handling the same message
\* once more leaves the tab's GameState and LobbyState as the first
\* delivery left them.
C21_SnapshotDeliveryIdempotent ==
    [][\A q \in Participants :
         DeliveredSnapshot(q) =>
            LET ev == Head(inbox[q])
                again == handleStorageChange(
                             [After EXCEPT !.inbox[q] = <<ev>> \o @], q)
            IN /\ again.gameState[q] = gameState'[q]
               /\ again.lobbyState[q] = lobbyState'[q]]_vars

\* p3 has handled the START_GAME message of the host: it holds the board
\* the message carried, on which only the three starting tiles are owned.
C21_Witness ==
    /\ call.op = ""
    /\ IsSome(lobbyState["p3"])
    /\ Get(lobbyState["p3"]).gameStarted
    /\ IsSome(gameState["p3"])
    /\ DOMAIN Get(gameState["p3"]).grid =
           {startingPositions[i] : i \in 1..Len(startingPositions)}

\* A poll of the lobby record would change nothing at any tab: every poll
\* has run.
Polled ==
    \A q \in Participants : IsSome(lobbyState[q]) => checkForUpdates(Cur, q) = Cur

\* Nobody has a storage event left to handle, and every poll has run.
Quiescent ==
    /\ \A q \in Participants : inbox[q] = <<>>
    /\ Polled

\* What two snapshots have to agree on: the grid, each player's tiles,
\* gameOver and winner.
SameBoard(a, b) ==
    /\ a.grid = b.grid
    /\ Len(a.players) = Len(b.players)
    /\ \A i \in 1..Len(a.players) :
         /\ a.players[i].id = b.players[i].id
         /\ TileSet(a.players[i].tiles) = TileSet(b.players[i].tiles)
    /\ a.gameOver = b.gameOver
    /\ a.winner = b.winner

\* C22: once every poll of the lobby record has run, whether or not storage
\* events are still waiting to be handled, all tabs hold the same grid, the
\* same tiles for each player, the same gameOver and the same winner; also
\* after two tabs acted on the same snapshot at once.
C22_Converges ==
    Polled =>
        \A p, q \in Participants :
            /\ IsSome(gameState[p]) = IsSome(gameState[q])
            /\ IsSome(gameState[p]) /\ IsSome(gameState[q]) =>
                  SameBoard(Get(gameState[p]), Get(gameState[q]))

\* Two calls succeeded, all is quiet, and every tab holds exactly the board
\* of the standoff with p3's DEFENSE construct on (3, 4): the other call
\* was made on the same snapshot as the build, and its effect is gone.
C22_Witness ==
    /\ Quiescent
    /\ ops = MaxDuel
    /\ \A p \in Participants :
         gameState[p] =
             Some(buildConstruct(Get(Standoff.gameState["p3"]), "p3", 3, 4, DEFENSE))

\* The step was a call of claimTile, buildConstruct or demolishConstruct by a
\* tab that holds a GameState.
EngineCall ==
    /\ call'.op \in {"claimTile", "buildConstruct", "demolishConstruct"}
    /\ IsSome(gameState[call'.by])

\* C23: with a GameState present, claimTile, buildConstruct and
\* demolishConstruct called with any coordinates, also outside the grid and
\* also by a tab without a record in players, succeed or return false with
\* nothing changed; they never throw.
C23_AsStated ==
    [][EngineCall =>
         /\ call'.ret \in {"true", "false"}
         /\ call'.ret = "false" =>
               UNCHANGED <<lobbyState, gameState, storage, inbox>>]_vars


\* C24: in every GameState every tile that has a construct has
\* construct.ownerId = tile.ownerId, also after another player has captured
\* the tile.
C24_AsStated ==
    \A gs \in Snapshots : \A c \in DOMAIN gs.grid :
        IsSome(gs.grid[c].construct) =>
            Get(gs.grid[c].construct).ownerId = gs.grid[c].ownerId


\* C25: in every GameState every tile has defenseBonus 0 or 10, and 10
\* exactly when the tile holds a DEFENSE construct; also after the tile was
\* captured and after the player who captured it demolished the construct.
C25_DefenseBonus ==
    \A gs \in Snapshots : \A c \in DOMAIN gs.grid :
        /\ gs.grid[c].defenseBonus \in {0, 10}
        /\ gs.grid[c].defenseBonus = 10 <=>
              /\ IsSome(gs.grid[c].construct)
              /\ Get(gs.grid[c].construct).type = DEFENSE

\* p1 has demolished the construct on (3, 4), the tile on which p3 built its
\* DEFENSE and which p1 then captured; the tile is p1's and has no bonus.
C25_Witness ==
    /\ call.op = "demolishConstruct" /\ call.by = "p1" /\ call.ret = "true"
    /\ call.x = 3 /\ call.y = 4
    /\ LET tile == TileAt(Get(gameState["p1"]).grid, <<3, 4>>) IN
       /\ tile.ownerId = "p1"
       /\ tile.construct = None
       /\ tile.defenseBonus = 0


\* C26: in every GameState, gameOver = true implies that winner is not
\* null, whether the match ended by elimination in claimTile or by the
\* ticker at gameEndTime.
C26_GameOverHasWinner ==
    \A gs \in Snapshots : gs.gameOver => gs.winner # NULL

\* The ticker has ended a match at gameEndTime in which nobody had made a
\* successful call, and the match has a winner.
C26_Witness ==
    \E p \in Participants :
        /\ IsSome(gameState[p])
        /\ Get(gameState[p]).gameOver
        /\ Get(gameState[p]).winner # NULL
        /\ now >= Get(gameState[p]).gameEndTime
        /\ ticks[p] = 1
        /\ ops = 0


\* C27: the ticker callback runs at a tab only while the tab holds a
\* GameState whose gameOver is false; and while a tab holds none, or one
\* whose gameOver is true, a step that is neither a call by that tab nor
\* the handling of a storage event at that tab leaves the tab's GameState
\* (gold, units, winner and all) as it is.
C27_TickerStopsAtGameOver ==
    [][\A p \in Participants :
         /\ Ticked(p) =>
               IsSome(gameState[p]) /\ ~Get(gameState[p]).gameOver
         /\ (/\ ~IsSome(gameState[p]) \/ Get(gameState[p]).gameOver
             /\ call'.by # p
             /\ Len(inbox'[p]) >= Len(inbox[p]))
            => gameState'[p] = gameState[p]]_vars

\* A match has ended by elimination at p3, the clock has reached
\* gameEndTime, and no ticker callback has run.
C27_Witness ==
    /\ IsSome(gameState["p3"])
    /\ Get(gameState["p3"]).gameOver
    /\ now >= Get(gameState["p3"]).gameEndTime
    /\ \A q \in Participants : ticks[q] = 0


\* A tab whose match the clock has overtaken: it holds a GameState with
\* gameOver false and now has reached gameEndTime.
Overdue(p) ==
    /\ IsSome(gameState[p])
    /\ ~Get(gameState[p]).gameOver
    /\ Get(gameState[p]).gameEndTime # 0
    /\ now >= Get(gameState[p]).gameEndTime

Over(p) == IsSome(gameState[p]) /\ Get(gameState[p]).gameOver

\* C28: with the ticker scheduled fairly and nobody resetting, a tab that
\* holds a GameState with gameOver false when the clock has reached
\* gameEndTime eventually holds one with gameOver true (for as long as the
\* tab's ticker has a run left within MaxRun); and the first run of the
\* ticker at or after gameEndTime already sets it.
C28_MatchEndsAtEndTime ==
    /\ \A p \in Participants :
         (Overdue(p) /\ ticks[p] < MaxRun) ~> Over(p)
    /\ [][\A p \in Participants :
            (Overdue(p) /\ Ticked(p)) => Over(p)']_vars

\* The clock ended the match at p3: p3's ticker ran at gameEndTime and
\* every tab and the record hold the finished match.
C28_Witness ==
    /\ \A q \in Participants : Over(q)
    /\ IsSome(storage) /\ IsSome(Get(storage).gameState)
    /\ Get(Get(storage).gameState).gameOver
    /\ now = Get(gameState["p3"]).gameEndTime
    /\ ticks["p3"] >= 1
    /\ ticks["p1"] = 0


\* The step ran the ticker callback of tab q or an engine call by tab q.
EngineStepAt(q) ==
    \/ Ticked(q)
    \/ call'.by = q /\ call'.op \in {"claimTile", "buildConstruct", "demolishConstruct"}

MergedSnapshotAt(q) ==
    /\ ~Called
    /\ IsSome(lobbyState[q])
    /\ IsSome(lobbyState'[q])
    /\ \/ /\ inbox[q] # <<>>
          /\ Len(inbox'[q]) = Len(inbox[q]) - 1
          /\ Head(inbox[q]).kind = "record"
       \/ /\ inbox' = inbox
          /\ lobbyState'[q] # lobbyState[q]

\* C30 as stated: when a tab merges a lobby snapshot from a storage event of
\* the record or from a poll of the record, its own player keeps the
\* isReady, faction and color its LobbyState held before.
C30_AsStated ==
    [][\A q \in Participants :
         (/\ MergedSnapshotAt(q)
          /\ HasPlayer(Get(lobbyState[q]).players, q)
          /\ HasPlayer(Get(lobbyState'[q]).players, q))
         => LET mine  == PlayerOf(Get(lobbyState[q]).players, q)
                mine2 == PlayerOf(Get(lobbyState'[q]).players, q)
            IN /\ mine2.isReady = mine.isReady
               /\ mine2.faction = mine.faction
               /\ mine2.color = mine.color]_vars


\* C31 as stated: two tabs in a match that hold the same LobbyState hold
\* the same LobbyState again after each has executed resetGame on it.
C31_AsStated ==
    \A p, q \in Participants :
        (/\ IsSome(lobbyState[p]) /\ lobbyState[q] = lobbyState[p]
         /\ IsSome(gameState[p]) /\ IsSome(gameState[q]))
        => resetGame(Cur, p).lobbyState[p] = resetGame(Cur, q).lobbyState[q]


\* The step was a successful claimTile on a tile another player owned.
Captured ==
    /\ call'.op = "claimTile"
    /\ call'.ret = "true"
    /\ IsSome(gameState[call'.by])
    /\ Contested(TileAt(Get(gameState[call'.by]).grid, <<call'.x, call'.y>>), call'.by)

C33_AsStated ==
    \A gs \in Snapshots :
        \A i \in 1..Len(gs.players) :
            /\ Len(gs.players[i].tiles) = Cardinality(TileSet(gs.players[i].tiles))
            /\ Len(gs.players[i].tiles) = Cardinality(OwnedBy(gs.grid, gs.players[i].id))


\* The constructs of one type standing on the tiles a player owns.
ConstructsOn(gs, id, type) ==
    {c \in DOMAIN gs.grid :
        /\ gs.grid[c].ownerId = id
        /\ IsSome(gs.grid[c].construct)
        /\ Get(gs.grid[c].construct).type = type}

\* C34 as stated: in every GameState each player's goldRate is 1 plus the
\* number of GOLD constructs on the tiles the player owns, and its unitRate
\* is 1 for the Aliens, else 0, plus the number of UNIT constructs on the
\* tiles the player owns.
C34_AsStated ==
    \A gs \in Snapshots :
        \A i \in 1..Len(gs.players) :
            LET pl == gs.players[i] IN
            /\ pl.goldRate = 1 + Cardinality(ConstructsOn(gs, pl.id, GOLD))
            /\ pl.unitRate = (IF pl.faction = ALIENS THEN 1 ELSE 0)
                                + Cardinality(ConstructsOn(gs, pl.id, UNIT))

\* C35 as stated: in every GameState every player's goldRate is at least 1
\* and every player's unitRate is at least 0.
C35_AsStated ==
    \A gs \in Snapshots :
        \A i \in 1..Len(gs.players) :
            gs.players[i].goldRate >= 1 /\ gs.players[i].unitRate >= 0


\* C36 as stated: in every GameState every player's gold and units are at
\* least 0, in a match whose every claimTile was called by the board with
\* the board's costs.
C36_AsStated ==
    \A gs \in Snapshots :
        \A i \in 1..Len(gs.players) :
            gs.players[i].gold >= 0 /\ gs.players[i].units >= 0


\* C37 as stated: at a tab whose GameState has gameOver true, every
\* claimTile, buildConstruct and demolishConstruct returns false and leaves
\* the tab's GameState as it is.
C37_AsStated ==
    [][(EngineCall /\ Get(gameState[call'.by]).gameOver) =>
          /\ call'.ret = "false"
          /\ gameState'[call'.by] = gameState[call'.by]]_vars


\* C38 as stated: at every tab, while the tab holds a GameState, gameOver
\* never goes from true to false and a winner that is set never changes.
C38_AsStated ==
    [][\A q \in Participants :
         (IsSome(gameState[q]) /\ IsSome(gameState'[q])) =>
            LET old == Get(gameState[q])
                new == Get(gameState'[q])
            IN /\ old.gameOver => new.gameOver
               /\ old.winner # NULL => new.winner = old.winner]_vars


\* C39 as stated: a tab that holds a GameState holds a LobbyState whose
\* gameStarted is true.
C39_AsStated ==
    \A q \in Participants :
        IsSome(gameState[q]) =>
            IsSome(lobbyState[q]) /\ Get(lobbyState[q]).gameStarted


\* The ids of the players of a roster.
IdsOf(players) == {players[i].id : i \in 1..Len(players)}

\* A roster whose lobby has gameStarted true gains no player in the step:
\* neither a tab's LobbyState nor the lobby record.
NoJoinWhileStarted ==
    /\ \A q \in Participants :
         (/\ IsSome(lobbyState[q]) /\ Get(lobbyState[q]).gameStarted
          /\ IsSome(lobbyState'[q]))
         => IdsOf(Get(lobbyState'[q]).players) \subseteq IdsOf(Get(lobbyState[q]).players)
    /\ (/\ IsSome(storage) /\ Get(storage).lobbyState.gameStarted
        /\ IsSome(storage'))
       => IdsOf(Get(storage').lobbyState.players)
             \subseteq IdsOf(Get(storage).lobbyState.players)

\* At every tab in a match the players of the GameState are the players of
\* the LobbyState.
MatchRoster ==
    \A q \in Participants :
        (/\ IsSome(gameState[q]) /\ IsSome(lobbyState[q])
         /\ Get(lobbyState[q]).gameStarted)
        => IdsOf(Get(gameState[q]).players) = IdsOf(Get(lobbyState[q]).players)

\* C40 as stated: no roster gains a player while its gameStarted is true,
\* and at every tab in a match GameState.players and LobbyState.players
\* hold the same ids.
C40_AsStated == [][NoJoinWhileStarted]_vars /\ []MatchRoster


====
